---- MODULE Spec2Model ----
(***************************************************************************)
(* Model of the hybridlane compilation pipeline for the Sandia QSCOUT ion  *)
(* trap: static wire-type analysis, hardware-wire parsing, the CSP wire    *)
(* layout, the compile pipeline built by get_compiler, the device front    *)
(* end QscoutIonTrap, the qubit-conditioned operator algebra and the       *)
(* Qumode address codec.                                                   *)
(***************************************************************************)
EXTENDS Integers, Sequences, FiniteSets, TLC

VARIABLES
    dev,          \* QscoutIonTrap instance fields (dev.made = FALSE before __init__)
    config,       \* ExecutionConfig.device_options after setup_execution_config
    opts,         \* keyword arguments get_compiler / layout_wires was called with
    pipeline,     \* the CompilePipeline: sequence of transform names
    pc,           \* number of transforms of the pipeline already applied
    tape,         \* QuantumScript.operations
    meas,         \* QuantumScript.measurements
    status,       \* "new" | "configured" | "running" | "done" | "error"
    error,        \* the exception that ended the run
    trace,        \* pipeline stages entered so far, in order
    sa_res,       \* StaticAnalysisResult of the last sa.analyze call
    wire_map,     \* wire map returned by the last _constrained_layout call
    solver_calls, \* number of times _constrained_layout has been entered
    warned,       \* a decomposition pass emitted "unable to find a decomposition"
    prev,         \* the tape and measurements handed to the last transform applied
    qc,           \* the operator algebra: last qcond call, the operator, its outputs
    codec,        \* the Qumode address codec: last call and its result
    call          \* the last direct call of a function: its name, argument and result

pipevars == <<dev, config, opts, pipeline, pc, tape, meas, status, error, trace,
              sa_res, wire_map, solver_calls, warned, prev>>

vars == <<dev, config, opts, pipeline, pc, tape, meas, status, error, trace,
          sa_res, wire_map, solver_calls, warned, prev, qc, codec, call>>

-----------------------------------------------------------------------------
(* Bounds of the model *)

\* longest generated circuit run through the whole pipeline
MaxOps == 1
\* longest generated circuit handed to layout_wires or analyze alone
MaxLayoutOps == 2
\* largest max_qubits / n_qubits option tried with generated circuits
MaxQ == 3
\* widest circuit of the too_many_qubits family is MaxWide qubits wide
MaxWide == 7

\* most control wires given to one qcond call
MaxControls == 3
\* control wires are drawn from the wire labels 0..MaxWire
MaxWire == 3
\* deepest nesting of QubitConditioned wrappers
MaxDepth == 2
\* longest generated circuit handed to gaussian_fusion
MaxFusionOps == 4
\* most measurements of a circuit handed to to_openqasm
MaxMeasurements == 3
\* largest qumode index written as an address
MaxIndex == 12
\* longest caller-supplied text handed to try_from_string
MaxText == 5

\* Python's None for an optional integer argument
None == -1

\* QscoutIonTrap._max_qubits
_max_qubits == 6

-----------------------------------------------------------------------------
(* Wires.  A wire label is an int, a str or a Qumode object; the three are  *)
(* kept in one record shape so that labels of different Python types        *)
(* compare unequal.                                                         *)

IntW(n) == [kind |-> "int", m |-> 0, i |-> n, s |-> <<>>]
StrW(chars) == [kind |-> "str", m |-> 0, i |-> 0, s |-> chars]
Qumode(manifold, index) == [kind |-> "qumode", m |-> manifold, i |-> index, s |-> <<>>]

Range(f) == {f[x] : x \in DOMAIN f}

RECURSIVE SeqUnion(_)
SeqUnion(ss) == IF ss = <<>> THEN {} ELSE Head(ss) \cup SeqUnion(Tail(ss))

RECURSIVE Flatten(_)
Flatten(ss) == IF ss = <<>> THEN <<>> ELSE Head(ss) \o Flatten(Tail(ss))

\* ops[::-1]
Reversed(ops) == [k \in DOMAIN ops |-> ops[Len(ops) + 1 - k]]

NoDuplicates(ws) == \A a, b \in DOMAIN ws : a # b => ws[a] # ws[b]

NoMap == [w \in {} |-> w]
NoError == [type |-> "none", msg |-> "none"]
Err(t, m) == [type |-> t, msg |-> m]

\* no function has been called directly
NoCall == [fn |-> "none", arg |-> <<>>, result |-> <<>>]

-----------------------------------------------------------------------------
(* Qumode address codec *)

Digit == {"0", "1", "2", "3", "4", "5", "6", "7", "8", "9"}

DigitVal(c) ==
    CASE c = "0" -> 0 [] c = "1" -> 1 [] c = "2" -> 2 [] c = "3" -> 3
      [] c = "4" -> 4 [] c = "5" -> 5 [] c = "6" -> 6 [] c = "7" -> 7
      [] c = "8" -> 8 [] c = "9" -> 9

RECURSIVE IntOf(_)
\* int(digits)
IntOf(ds) ==
    IF ds = <<>> THEN 0 ELSE 10 * IntOf(SubSeq(ds, 1, Len(ds) - 1)) + DigitVal(ds[Len(ds)])

\* the text s spells m[01]i\d+ from its first to its last character
IsAddress(s) ==
    /\ Len(s) >= 4
    /\ s[1] = "m"
    /\ s[2] \in {"0", "1"}
    /\ s[3] = "i"
    /\ \A k \in 4..Len(s) : s[k] \in Digit

\* re.match(r"^m([01])i(\d+)$", s): "$" also matches just before one
\* trailing newline
RegexBody(s) ==
    IF IsAddress(s) THEN s
    ELSE IF Len(s) >= 1 /\ s[Len(s)] = "\n" /\ IsAddress(SubSeq(s, 1, Len(s) - 1))
         THEN SubSeq(s, 1, Len(s) - 1)
         ELSE <<>>

\* variant of try_from_string: the index is read from one digit, (\d)
try_from_string_one_digit(s) ==
    LET b == RegexBody(s) IN
    IF b = <<>> THEN {}
    ELSE {Qumode(DigitVal(b[2]), DigitVal(b[4]))}

\* Qumode.try_from_string: a one-element set holding the Qumode, or {} for None
try_from_string(s) ==
    LET b == RegexBody(s) IN
    IF b = <<>> THEN {}
    ELSE {Qumode(DigitVal(b[2]), IntOf(SubSeq(b, 4, Len(b))))}

\* decimal digits of a non-negative int, as str() writes them
DigitChar(d) ==
    CASE d = 0 -> "0" [] d = 1 -> "1" [] d = 2 -> "2" [] d = 3 -> "3"
      [] d = 4 -> "4" [] d = 5 -> "5" [] d = 6 -> "6" [] d = 7 -> "7"
      [] d = 8 -> "8" [] d = 9 -> "9"

RECURSIVE StrOfInt(_)
StrOfInt(n) == IF n < 10 THEN <<DigitChar(n)>> ELSE Append(StrOfInt(n \div 10), DigitChar(n % 10))

\* Qumode.__str__: f"m{manifold}i{index}"
Qumode__str__(q) == <<"m">> \o StrOfInt(q.m) \o <<"i">> \o StrOfInt(q.i)

NoCodec == [call |-> "none", text |-> <<>>, arg |-> Qumode(0, 0), result |-> {}]

-----------------------------------------------------------------------------
(* Qubit-conditioned operators.  An operator is its innermost base (name,  *)
(* data, wires) under a stack of QubitConditioned wrappers, outermost      *)
(* first; custom marks a subclass that overrides compute_decomposition.    *)

Operator(name, data, ws) ==
    [name |-> name, data |-> data, wires |-> ws, controls |-> <<>>, custom |-> FALSE]

NoOperator == Operator("none", <<>>, <<>>)

\* type(op).__name__
TypeOf(op) == IF op.controls = <<>> THEN op.name ELSE "QubitConditioned"

\* QubitConditioned.base
base_of(op) == [op EXCEPT !.controls = Tail(@), !.custom = FALSE]

\* QubitConditioned.control_wires
control_wires_of(op) == Head(op.controls)

\* Operator.wires; QubitConditioned.wires = control_wires + base.wires
op_wires(op) == Flatten(op.controls) \o op.wires

\* variant of QubitConditioned.__init__: shared wires are not looked for
QubitConditioned_unchecked(base, control_wires) ==
    [error |-> "none", op |-> [base EXCEPT !.controls = <<control_wires>> \o @]]

\* QubitConditioned.__init__
QubitConditioned(base, control_wires) ==
    IF Range(op_wires(base)) \cap Range(control_wires) # {}
    THEN [error |-> "ValueError", op |-> NoOperator]
    ELSE [error |-> "none", op |-> [base EXCEPT !.controls = <<control_wires>> \o @]]

\* qcond(op, control_wires)
qcond(op, control_wires) == QubitConditioned(op, control_wires)

\* base_to_custom_conditioned_op: keys (type, 1)
base_to_custom_conditioned_op(base_class, num_control_wires) ==
    IF num_control_wires # 1 THEN "none"
    ELSE CASE base_class = "Displacement" -> "ConditionalDisplacement"
           [] base_class = "Fourier" -> "ConditionalParity"
           [] base_class = "Squeezing" -> "ConditionalSqueezing"
           [] base_class = "Beamsplitter" -> "ConditionalBeamsplitter"
           [] base_class = "TwoModeSqueezing" -> "ConditionalTwoModeSqueezing"
           [] base_class = "TwoModeSum" -> "ConditionalTwoModeSum"
           [] base_class = "RZ" -> "IsingZZ"
           [] base_class = "IsingZZ" -> "MultiRZ"
           [] OTHER -> "none"

CNOT(c, t) == Operator("CNOT", <<>>, <<c, t>>)

\* zip(control_wires[:-1], control_wires[1:]) as CNOTs
CnotChain(cw) == [k \in 1..(Len(cw) - 1) |-> CNOT(cw[k], cw[k + 1])]

Defined(ops) == [defined |-> TRUE, ops |-> ops]
Undefined == [defined |-> FALSE, ops |-> <<>>]

\* variant of _decompose_custom_op: a Rotation keeps its angle
_decompose_custom_op_same_angle(op) ==
    LET base == base_of(op)
        cw == control_wires_of(op)
        custom_decomp == base_to_custom_conditioned_op(TypeOf(base), Len(cw))
        cnots == CnotChain(cw)
    IN
    IF custom_decomp # "none" THEN Defined(<<Operator(custom_decomp, op.data, op_wires(op))>>)
    ELSE IF TypeOf(base) = "MultiRZ"
    THEN Defined(<<Operator("MultiRZ", base.data, cw \o op_wires(base))>>)
    ELSE IF TypeOf(base) = "Identity"
    THEN Defined(<<Operator("Identity", <<>>, cw \o op_wires(base))>>)
    ELSE IF TypeOf(base) = "GlobalPhase"
    THEN Defined(<<Operator("MultiRZ", <<base.data[1]>>, cw)>>)
    ELSE IF Len(cw) >= 2
    THEN Defined(cnots \o <<QubitConditioned(base, <<cw[Len(cw)]>>).op>> \o Reversed(cnots))
    ELSE IF TypeOf(base) = "Rotation"
    THEN Defined(<<Operator("ConditionalRotation", <<base.data[1]>>, cw \o op_wires(base))>>)
    ELSE Undefined

\* variant of _decompose_custom_op: the base is conditioned on the first
\* control wire and the CNOTs are repeated in the same order
_decompose_custom_op_first_control(op) ==
    LET base == base_of(op)
        cw == control_wires_of(op)
        custom_decomp == base_to_custom_conditioned_op(TypeOf(base), Len(cw))
        cnots == CnotChain(cw)
    IN
    IF custom_decomp # "none" THEN Defined(<<Operator(custom_decomp, op.data, op_wires(op))>>)
    ELSE IF TypeOf(base) = "MultiRZ"
    THEN Defined(<<Operator("MultiRZ", base.data, cw \o op_wires(base))>>)
    ELSE IF TypeOf(base) = "Identity"
    THEN Defined(<<Operator("Identity", <<>>, cw \o op_wires(base))>>)
    ELSE IF TypeOf(base) = "GlobalPhase"
    THEN Defined(<<Operator("MultiRZ", <<2 * base.data[1]>>, cw)>>)
    ELSE IF Len(cw) >= 2
    THEN Defined(cnots \o <<QubitConditioned(base, <<cw[1]>>).op>> \o cnots)
    ELSE IF TypeOf(base) = "Rotation"
    THEN Defined(<<Operator("ConditionalRotation", <<2 * base.data[1]>>, cw \o op_wires(base))>>)
    ELSE Undefined

\* variant of _decompose_custom_op: several control wires always take the
\* CNOT ladder, before the MultiRZ, Identity and GlobalPhase identities
_decompose_custom_op_ladder_first(op) ==
    LET base == base_of(op)
        cw == control_wires_of(op)
        custom_decomp == base_to_custom_conditioned_op(TypeOf(base), Len(cw))
        cnots == CnotChain(cw)
    IN
    IF Len(cw) >= 2
    THEN Defined(cnots \o <<QubitConditioned(base, <<cw[Len(cw)]>>).op>> \o Reversed(cnots))
    ELSE IF custom_decomp # "none"
    THEN Defined(<<Operator(custom_decomp, op.data, op_wires(op))>>)
    ELSE IF TypeOf(base) = "MultiRZ"
    THEN Defined(<<Operator("MultiRZ", base.data, cw \o op_wires(base))>>)
    ELSE IF TypeOf(base) = "Identity"
    THEN Defined(<<Operator("Identity", <<>>, cw \o op_wires(base))>>)
    ELSE IF TypeOf(base) = "GlobalPhase"
    THEN Defined(<<Operator("MultiRZ", <<2 * base.data[1]>>, cw)>>)
    ELSE IF TypeOf(base) = "Rotation"
    THEN Defined(<<Operator("ConditionalRotation", <<2 * base.data[1]>>, cw \o op_wires(base))>>)
    ELSE Undefined

\* _decompose_custom_op: the list of operators, or None
_decompose_custom_op(op) ==
    LET base == base_of(op)
        cw == control_wires_of(op)
        custom_decomp == base_to_custom_conditioned_op(TypeOf(base), Len(cw))
        cnots == CnotChain(cw)
    IN
    IF custom_decomp # "none" THEN Defined(<<Operator(custom_decomp, op.data, op_wires(op))>>)
    ELSE IF TypeOf(base) = "MultiRZ"
    THEN Defined(<<Operator("MultiRZ", base.data, cw \o op_wires(base))>>)
    ELSE IF TypeOf(base) = "Identity"
    THEN Defined(<<Operator("Identity", <<>>, cw \o op_wires(base))>>)
    ELSE IF TypeOf(base) = "GlobalPhase"
    THEN Defined(<<Operator("MultiRZ", <<2 * base.data[1]>>, cw)>>)
    ELSE IF Len(cw) >= 2
    THEN Defined(cnots \o <<QubitConditioned(base, <<cw[Len(cw)]>>).op>> \o Reversed(cnots))
    ELSE IF TypeOf(base) = "Rotation"
    THEN Defined(<<Operator("ConditionalRotation", <<2 * base.data[1]>>, cw \o op_wires(base))>>)
    ELSE Undefined

\* compute_decomposition of a subclass that defines one
compute_decomposition(data, ws) == <<Operator("SubclassRule", data, ws)>>

\* variant of decomposition: an operator without a rule decomposes to nothing
decomposition_silent(op) ==
    IF op.custom THEN [error |-> "none", ops |-> compute_decomposition(op.data, op_wires(op))]
    ELSE [error |-> "none", ops |-> _decompose_custom_op(op).ops]

\* QubitConditioned.decomposition
decomposition(op) ==
    IF op.custom THEN [error |-> "none", ops |-> compute_decomposition(op.data, op_wires(op))]
    ELSE LET decomp == _decompose_custom_op(op) IN
         IF ~decomp.defined
         THEN [error |-> "DecompositionUndefinedError", ops |-> <<>>]
         ELSE [error |-> "none", ops |-> decomp.ops]

\* base classes with a _qubit_conditioned attribute: no class of the
\* repository defines one
_qubit_conditioned_bases == {}

\* QubitConditioned.has_decomposition
has_decomposition(op) ==
    LET base == base_of(op)
        control_wires == control_wires_of(op)
    IN IF op.custom THEN TRUE
       ELSE IF Len(control_wires) > 1 THEN TRUE
       ELSE IF base_to_custom_conditioned_op(TypeOf(base), Len(control_wires)) # "none"
       THEN TRUE
       ELSE IF TypeOf(base) \in {"GlobalPhase", "Identity", "Rotation"} THEN TRUE
       ELSE IF Len(control_wires) = 1 /\ TypeOf(base) \in _qubit_conditioned_bases
       THEN TRUE
       ELSE FALSE

\* Operator.resource_params of an operator that is not conditioned
base_resource_params(op) == [num_wires |-> IF op.name = "MultiRZ" THEN Len(op.wires) ELSE 0]

RECURSIVE resource_params(_)
\* QubitConditioned.resource_params
resource_params(op) ==
    IF op.controls = <<>> THEN base_resource_params(op)
    ELSE [base_class |-> TypeOf(base_of(op)),
          base_params |-> resource_params(base_of(op)),
          num_control_wires |-> Len(control_wires_of(op))]

\* CompressedResourceOp(op_type, params)
CompressedResourceOp(op_type, base_class, base_params, num_control_wires) ==
    [op_type |-> op_type, base_class |-> base_class, base_params |-> base_params,
     num_control_wires |-> num_control_wires]

NoKey == CompressedResourceOp("none", "none", [num_wires |-> 0], 0)

\* arithmetic on a class whose num_wires is not an int, or a resource_rep
\* call without the resource keys of its class, raises TypeError
KeyTypeError == CompressedResourceOp("TypeError", "none", [num_wires |-> 0], 0)

\* qml.resource_rep(op_type) called without keyword arguments
resource_rep(op_type) ==
    IF op_type = "MultiRZ" THEN KeyTypeError
    ELSE CompressedResourceOp(op_type, "none", [num_wires |-> 0], 0)

\* custom_qubit_controlled_op_to_base
custom_qubit_controlled_op_to_base(base_class) ==
    CASE base_class = "ConditionalDisplacement" -> "Displacement"
      [] base_class = "ConditionalSqueezing" -> "Squeezing"
      [] base_class = "ConditionalParity" -> "Fourier"
      [] base_class = "ConditionalTwoModeSqueezing" -> "TwoModeSqueezing"
      [] base_class = "ConditionalTwoModeSum" -> "TwoModeSum"
      [] base_class = "ConditionalBeamsplitter" -> "Beamsplitter"
      [] base_class = "IsingZZ" -> "RZ"
      [] base_class = "MultiRZ" -> "RZ"
      [] OTHER -> "none"

\* the class attribute num_wires; None for a gate on any number of wires
num_wires(class) ==
    CASE class \in {"Displacement", "Squeezing", "Fourier", "RZ", "Rotation"} -> 1
      [] class \in {"ConditionalDisplacement", "ConditionalSqueezing", "ConditionalParity",
                    "TwoModeSqueezing", "TwoModeSum", "Beamsplitter", "IsingZZ"} -> 2
      [] class \in {"ConditionalTwoModeSqueezing", "ConditionalTwoModeSum",
                    "ConditionalBeamsplitter"} -> 3
      [] OTHER -> None

RECURSIVE qubit_conditioned_resource_rep(_, _, _)
\* qubit_conditioned_resource_rep
qubit_conditioned_resource_rep(base_class, base_params, num_control_wires) ==
    LET known_decomp == base_to_custom_conditioned_op(base_class, num_control_wires)
        known_custom_gate == custom_qubit_controlled_op_to_base(base_class)
    IN
    IF base_class = "QubitConditioned"
    THEN qubit_conditioned_resource_rep(base_params.base_class, base_params.base_params,
                                        num_control_wires + base_params.num_control_wires)
    ELSE IF known_decomp # "none" THEN resource_rep(known_decomp)
    ELSE IF base_class = "Rotation" THEN resource_rep("ConditionalRotation")
    ELSE IF known_custom_gate # "none"
    THEN IF num_wires(base_class) = None
         THEN KeyTypeError
         ELSE CompressedResourceOp("QubitConditioned", known_custom_gate, base_params,
                  num_control_wires + num_wires(base_class) - num_wires(known_custom_gate))
    ELSE CompressedResourceOp("QubitConditioned", base_class, base_params, num_control_wires)

\* the resource key of a conditioned operator
resource_key(op) ==
    LET p == resource_params(op) IN
    qubit_conditioned_resource_rep(p.base_class, p.base_params, p.num_control_wires)

\* variant of _qcond_cnot_decomposition: the CNOTs are repeated in the same
\* order after the conditioned base
_qcond_cnot_decomposition_unreversed(base, control_wires) ==
    LET ct == CnotChain(control_wires) IN
    ct \o <<qcond(base, <<control_wires[Len(control_wires)]>>).op>> \o ct

\* _qcond_cnot_decomposition, registered for num_control_wires > 1
_qcond_cnot_decomposition(base, control_wires) ==
    LET ct == CnotChain(control_wires) IN
    ct \o <<qcond(base, <<control_wires[Len(control_wires)]>>).op>> \o Reversed(ct)

\* merge_qubit_conditioned: a nested conditioned operator made flat
merge_qubit_conditioned(base, control_wires) ==
    <<qcond(base_of(base), control_wires \o control_wires_of(base)).op>>

\* to_native_qcond(1): a base conditioned on one qubit becomes its native
\* conditional gate
to_native_qcond(op) ==
    LET base == base_of(op)
        native == base_to_custom_conditioned_op(TypeOf(base), 1)
    IN IF native # "none" THEN <<Operator(native, op.data, op_wires(op))>>
       ELSE IF TypeOf(base) = "Rotation"
       THEN <<Operator("ConditionalRotation", <<2 * base.data[1]>>, op_wires(op))>>
       ELSE <<>>

\* the rule the decomposition graph has for a conditioned operator, as the
\* operators it produces; <<>> when it has none
graph_rule(op) ==
    LET base == base_of(op)
        cw == control_wires_of(op)
    IN IF TypeOf(base) = "QubitConditioned" THEN merge_qubit_conditioned(base, cw)
       ELSE IF Len(cw) > 1 THEN _qcond_cnot_decomposition(base, cw)
       ELSE to_native_qcond(op)

\* index of the first operator outside the gate set, or 0
FirstOutside(ops, gate_set) ==
    LET outside == {k \in DOMAIN ops : TypeOf(ops[k]) \notin gate_set} IN
    IF outside = {} THEN 0 ELSE CHOOSE k \in outside : \A j \in outside : k <= j

NoQC ==
    [phase |-> "none", base |-> NoOperator, control_wires |-> <<>>, op |-> NoOperator,
     out |-> <<>>, error |-> "none", key |-> NoKey, gate_set |-> {}, steps |-> 0]

-----------------------------------------------------------------------------
(* Gates *)

QUBIT_GATES ==
    {"GlobalPhase", "R", "RX", "RY", "RZ", "PauliX", "PauliY", "PauliZ", "SX",
     "Adjoint(SX)", "S", "Adjoint(S)", "IsingXX", "IsingYY", "IsingZZ"}

BOSON_GATES ==
    {"JaynesCummings", "AntiJaynesCummings", "FockState", "ConditionalDisplacement",
     "ConditionalYDisplacement", "ConditionalXDisplacement", "ConditionalXSqueezing",
     "NativeBeamsplitter", "SidebandProbe"}

NATIVE_GATES == QUBIT_GATES \cup BOSON_GATES

\* keys of NATIVE_GATES_WITH_COST, the target gate set of every decompose pass
NATIVE_GATES_WITH_COST ==
    NATIVE_GATES \cup {"ConditionalDisplacement", "ConditionalYDisplacement"}

\* purely bosonic gates: every wire is a qumode
CVGates == {"Displacement", "Squeezing", "Rotation", "Fourier", "ModeSwap", "Beamsplitter"}

\* Hybrid gates declare num_qumodes; their wires are (qubits..., qumodes...)
num_qumodes(name) ==
    CASE name \in {"NativeBeamsplitter", "Beamsplitter", "ModeSwap"} -> 2
      [] name \in {"JaynesCummings", "AntiJaynesCummings", "FockState",
                   "ConditionalDisplacement", "ConditionalYDisplacement",
                   "ConditionalXDisplacement", "ConditionalXSqueezing",
                   "SidebandProbe", "ConditionalSqueezing", "FockStatePrep"} -> 1
      [] name \in CVGates -> 1
      [] OTHER -> 0

Op(name, wires) == [name |-> name, wires |-> wires]

\* wire positions of an operation that are qumodes
QumodePositions(op) ==
    IF op.name \in CVGates THEN DOMAIN op.wires
    ELSE {k \in DOMAIN op.wires : k > Len(op.wires) - num_qumodes(op.name)}

OpQumodes(op) == {op.wires[k] : k \in QumodePositions(op)}
OpQubits(op) == {op.wires[k] : k \in (DOMAIN op.wires) \ QumodePositions(op)}

\* observables: leaves of an observable tree
QubitObs == {"PauliX", "PauliY", "PauliZ"}
QumodeObs == {"NumberOperator", "QuadX"}

Leaf(name, wire) == [name |-> name, wire |-> wire]

\* a measurement: sampled or analytic, with an observable given as a sum of
\* words (products of leaves), or with no observable at all
Measurement(sampled, hasobs, words) ==
    [sampled |-> sampled, hasobs |-> hasobs, words |-> words]

MeasLeaves(m) == IF m.hasobs THEN Range(Flatten(m.words)) ELSE {}

\* QuantumScript.wires
TapeWires(ops, ms) ==
    UNION {Range(ops[k].wires) : k \in DOMAIN ops}
    \cup UNION {{l.wire : l \in MeasLeaves(ms[k])} : k \in DOMAIN ms}

-----------------------------------------------------------------------------
(* Static analysis *)

\* wires used as qubits, and as qumodes, by some operation or observable
UsedAsQubit(ops, ms) ==
    UNION {OpQubits(ops[k]) : k \in DOMAIN ops}
    \cup UNION {{l.wire : l \in {x \in MeasLeaves(ms[k]) : x.name \in QubitObs}} : k \in DOMAIN ms}

UsedAsQumode(ops, ms) ==
    UNION {OpQumodes(ops[k]) : k \in DOMAIN ops}
    \cup UNION {{l.wire : l \in {x \in MeasLeaves(ms[k]) : x.name \in QumodeObs}} : k \in DOMAIN ms}

\* variant of infer_wire_types: observables are not walked
infer_wire_types_ops_only(ops, ms) ==
    [qubits |-> UsedAsQubit(ops, <<>>), qumodes |-> UsedAsQumode(ops, <<>>)]

\* the wire types inferred for a circuit, aliasing not yet checked
infer_wire_types(ops, ms) ==
    [qubits |-> UsedAsQubit(ops, ms), qumodes |-> UsedAsQumode(ops, ms)]

\* variant of analyze: a wire used both ways is quietly kept as a qubit
analyze_qubit_wins(ops, ms) ==
    LET t == infer_wire_types(ops, ms) IN
    [ok |-> TRUE, qubits |-> t.qubits, qumodes |-> t.qumodes \ t.qubits]

\* sa.analyze: the StaticAnalysisResult, or StaticAnalysisError (ok = FALSE)
\* when a wire is inferred both as qubit and as qumode
analyze(ops, ms) ==
    LET t == infer_wire_types(ops, ms) IN
    IF t.qubits \cap t.qumodes # {}
    THEN [ok |-> FALSE, qubits |-> {}, qumodes |-> {}]
    ELSE [ok |-> TRUE, qubits |-> t.qubits, qumodes |-> t.qumodes]

NoAnalysis == [ok |-> FALSE, qubits |-> {}, qumodes |-> {}]

-----------------------------------------------------------------------------
(* Rules about what the device handles *)

\* variant of is_gate_supported: the beamsplitter is accepted on any qubit
is_gate_supported_any_qubit(op) ==
    CASE op.name = "ConditionalXSqueezing" ->
            op.wires[2] = Qumode(1, 1)
      [] op.name = "NativeBeamsplitter" ->
            {Qumode(0, 1), Qumode(1, 1)} \subseteq Range(op.wires)
      [] OTHER -> op.name \in NATIVE_GATES

\* is_gate_supported, dispatched on the operator type
is_gate_supported(op) ==
    CASE op.name = "ConditionalXSqueezing" ->
            op.wires[2] = Qumode(1, 1)
      [] op.name = "NativeBeamsplitter" ->
            /\ {Qumode(0, 1), Qumode(1, 1)} \subseteq Range(op.wires)
            /\ op.wires[1] \in {IntW(0), IntW(1), IntW(3)}
      [] OTHER -> op.name \in NATIVE_GATES

_get_device_qubits(max_qubits) == {IntW(k) : k \in 0..(max_qubits - 1)}

\* variant of _get_device_qumodes: the centre-of-mass modes are always offered
_get_device_qumodes_com(max_qubits, use_com_modes) ==
    {Qumode(m, i) : m \in {0, 1}, i \in 0..(max_qubits - 1)}

_get_device_qumodes(max_qubits, use_com_modes) ==
    LET min_qumode_idx == IF use_com_modes THEN 0 ELSE 1 IN
    {Qumode(m, i) : m \in {0, 1}, i \in min_qumode_idx..(max_qubits - 1)}

_get_allowed_device_wires(max_qubits, use_com_modes) ==
    _get_device_qubits(max_qubits) \cup _get_device_qumodes(max_qubits, use_com_modes)

-----------------------------------------------------------------------------
(* Wire maps *)

MapWire(w, wm) == IF w \in DOMAIN wm THEN wm[w] ELSE w

\* Operator.map_wires
map_wires_op(op, wm) == Op(op.name, [k \in DOMAIN op.wires |-> MapWire(op.wires[k], wm)])

map_wires_meas(m, wm) ==
    Measurement(m.sampled, m.hasobs,
        [a \in DOMAIN m.words |->
            [b \in DOMAIN m.words[a] |->
                Leaf(m.words[a][b].name, MapWire(m.words[a][b].wire, wm))]])

\* qml.map_wires on the operations and on the measurements of a tape
map_wires_ops(ops, wm) == [k \in DOMAIN ops |-> map_wires_op(ops[k], wm)]
map_wires_ms(ms, wm) == [k \in DOMAIN ms |-> map_wires_meas(ms[k], wm)]

\* an operator whose wires repeat cannot be built (Wires raises WireError)
WiresValid(ops) == \A k \in DOMAIN ops : NoDuplicates(ops[k].wires)

-----------------------------------------------------------------------------
(* Layout as a constraint satisfaction problem *)

\* variant of constraint: the gate is not looked at
constraint_unchecked(hw, virtual_op) == TRUE

\* the per-gate constraint: the gate relabelled with the candidate hardware
\* wires is supported
constraint(hw, virtual_op) == is_gate_supported(map_wires_op(virtual_op, hw))

\* variant of _construct_csp: AllDifferentConstraint is not added
_construct_csp_shared(ops, sa, hw_qubits, hw_qumodes) ==
    [domain |-> [w \in sa.qubits \cup sa.qumodes |->
                    IF w \in sa.qubits THEN hw_qubits ELSE hw_qumodes],
     all_different |-> FALSE,
     pinned |-> (sa.qubits \cap hw_qubits) \cup (sa.qumodes \cap hw_qumodes),
     gates |-> ops]

\* variant of _construct_csp: hardware-labelled wires are not pinned
_construct_csp_unpinned(ops, sa, hw_qubits, hw_qumodes) ==
    [domain |-> [w \in sa.qubits \cup sa.qumodes |->
                    IF w \in sa.qubits THEN hw_qubits ELSE hw_qumodes],
     all_different |-> TRUE,
     pinned |-> {},
     gates |-> ops]

\* the Problem built by _construct_csp
_construct_csp(ops, sa, hw_qubits, hw_qumodes) ==
    [domain |-> [w \in sa.qubits \cup sa.qumodes |->
                    IF w \in sa.qubits THEN hw_qubits ELSE hw_qumodes],
     all_different |-> TRUE,
     pinned |-> (sa.qubits \cap hw_qubits) \cup (sa.qumodes \cap hw_qumodes),
     gates |-> ops]

RECURSIVE Assignments(_, _, _)
\* every extension of the partial assignment to the variables still to do
\* that respects the domains, the pins and the all-different constraint
Assignments(problem, todo, partial) ==
    IF todo = {} THEN {partial}
    ELSE LET v == CHOOSE x \in todo : TRUE
             cand == {d \in problem.domain[v] :
                        /\ problem.all_different => d \notin Range(partial)
                        /\ v \in problem.pinned => d = v}
         IN UNION {Assignments(problem, todo \ {v}, (v :> d) @@ partial) : d \in cand}

\* Problem.getSolution: the assignments the solver may return; a Problem
\* without variables has no domains to search and yields None
getSolutions(problem) ==
    IF DOMAIN problem.domain = {} THEN {}
    ELSE {a \in Assignments(problem, DOMAIN problem.domain, NoMap) :
            \A k \in DOMAIN problem.gates : constraint(a, problem.gates[k])}

\* _constrained_layout: the solver returns one solution, whichever it finds
\* first, or None (the empty set here) when there is none
_constrained_layout(ops, sa, max_qubits, use_com_modes) ==
    LET mq == IF max_qubits = None \/ max_qubits = 0 THEN Cardinality(sa.qubits)
              ELSE max_qubits
    IN getSolutions(_construct_csp(ops, sa, _get_device_qubits(mq),
                                   _get_device_qumodes(mq, use_com_modes)))

\* outcome of one transform applied to a tape
Outcome(e, ops, ms, sa, wm, solved, w) ==
    [error |-> e, tape |-> ops, meas |-> ms, sa |-> sa, wire_map |-> wm,
     solved |-> solved, warned |-> w]

Raise(e, ops, ms, sa, solved) == Outcome(e, ops, ms, sa, NoMap, solved, FALSE)

\* sa.analyze called on a tape: the result, or StaticAnalysisError
analyze_tape(ops, ms) ==
    LET sa == analyze(ops, ms) IN
    IF ~sa.ok
    THEN {Raise(Err("StaticAnalysisError", "aliased wire"), ops, ms, sa, FALSE)}
    ELSE {Outcome(NoError, ops, ms, sa, NoMap, FALSE, FALSE)}

\* variant of layout_wires: the budget checks are left to the solver
layout_wires_unbudgeted(ops, ms, max_qubits, use_com_modes) ==
    LET sa == analyze(ops, ms)
        mq == IF max_qubits = None \/ max_qubits = 0 THEN Cardinality(sa.qubits)
              ELSE max_qubits
        sols == _constrained_layout(ops, sa, mq, use_com_modes)
    IN
    IF ~sa.ok
    THEN {Raise(Err("StaticAnalysisError", "aliased wire"), ops, ms, sa, FALSE)}
    ELSE IF sols = {}
    THEN {Raise(Err("DeviceError", "no layout was found"), ops, ms, sa, TRUE)}
    ELSE {Outcome(NoError, map_wires_ops(ops, wm), map_wires_ms(ms, wm), sa, wm, TRUE, FALSE) :
            wm \in sols}

\* variant of layout_wires: a missing layout is reported as a qumode overflow
layout_wires_vague(ops, ms, max_qubits, use_com_modes) ==
    LET sa == analyze(ops, ms)
        mq == IF max_qubits = None \/ max_qubits = 0 THEN Cardinality(sa.qubits)
              ELSE max_qubits
        max_qumodes == IF use_com_modes THEN 2 * mq ELSE 2 * mq - 2
        sols == _constrained_layout(ops, sa, mq, use_com_modes)
    IN
    IF ~sa.ok
    THEN {Raise(Err("StaticAnalysisError", "aliased wire"), ops, ms, sa, FALSE)}
    ELSE IF Cardinality(sa.qubits) > mq
    THEN {Raise(Err("DeviceError", "more qubits than the maximum"), ops, ms, sa, FALSE)}
    ELSE IF Cardinality(sa.qumodes) > max_qumodes
    THEN {Raise(Err("DeviceError", "more qumodes than the maximum"), ops, ms, sa, FALSE)}
    ELSE IF sols = {}
    THEN {Raise(Err("DeviceError", "more qumodes than the maximum"), ops, ms, sa, TRUE)}
    ELSE {Outcome(NoError, map_wires_ops(ops, wm), map_wires_ms(ms, wm), sa, wm, TRUE, FALSE) :
            wm \in sols}

\* variant of layout_wires: the budget is always taken from the circuit
layout_wires_inferred(ops, ms, max_qubits, use_com_modes) ==
    LET sa == analyze(ops, ms)
        mq == Cardinality(sa.qubits)
        max_qumodes == IF use_com_modes THEN 2 * mq ELSE 2 * mq - 2
        sols == _constrained_layout(ops, sa, mq, use_com_modes)
    IN
    IF ~sa.ok
    THEN {Raise(Err("StaticAnalysisError", "aliased wire"), ops, ms, sa, FALSE)}
    ELSE IF Cardinality(sa.qubits) > mq
    THEN {Raise(Err("DeviceError", "more qubits than the maximum"), ops, ms, sa, FALSE)}
    ELSE IF Cardinality(sa.qumodes) > max_qumodes
    THEN {Raise(Err("DeviceError", "more qumodes than the maximum"), ops, ms, sa, FALSE)}
    ELSE IF sols = {}
    THEN {Raise(Err("DeviceError", "no layout was found"), ops, ms, sa, TRUE)}
    ELSE {Outcome(NoError, map_wires_ops(ops, wm), map_wires_ms(ms, wm), sa, wm, TRUE, FALSE) :
            wm \in sols}

\* layout_wires(tape, sa_res=None, max_qubits, use_com_modes): the set of
\* possible outcomes
layout_wires(ops, ms, max_qubits, use_com_modes) ==
    LET sa == analyze(ops, ms)
        mq == IF max_qubits = None \/ max_qubits = 0 THEN Cardinality(sa.qubits)
              ELSE max_qubits
        max_qumodes == IF use_com_modes THEN 2 * mq ELSE 2 * mq - 2
        sols == _constrained_layout(ops, sa, mq, use_com_modes)
    IN
    IF ~sa.ok
    THEN {Raise(Err("StaticAnalysisError", "aliased wire"), ops, ms, sa, FALSE)}
    ELSE IF Cardinality(sa.qubits) > mq
    THEN {Raise(Err("DeviceError", "more qubits than the maximum"), ops, ms, sa, FALSE)}
    ELSE IF Cardinality(sa.qumodes) > max_qumodes
    THEN {Raise(Err("DeviceError", "more qumodes than the maximum"), ops, ms, sa, FALSE)}
    ELSE IF sols = {}
    THEN {Raise(Err("DeviceError", "no layout was found"), ops, ms, sa, TRUE)}
    ELSE {Outcome(NoError, map_wires_ops(ops, wm), map_wires_ms(ms, wm), sa, wm, TRUE, FALSE) :
            wm \in sols}

-----------------------------------------------------------------------------
(* The transforms of the compile pipeline *)

\* from_pennylane: the operations of this model already carry hybridlane names
from_pennylane(ops, ms, sa) == {Outcome(NoError, ops, ms, sa, NoMap, FALSE, FALSE)}

\* gates that rotate the measured qubit of a Pauli X observable into the
\* computational basis
DiagonalizingGates(leaves) ==
    IF leaves = <<>> THEN <<>>
    ELSE [k \in DOMAIN leaves |-> Op("Hadamard", <<leaves[k].wire>>)]

\* diagonalize_measurements: every X observable becomes Z, behind a Hadamard
diagonalize_measurements(ops, ms, sa) ==
    LET xs(m) == IF m.hasobs
                 THEN SelectSeq(Flatten(m.words), LAMBDA l : l.name = "PauliX")
                 ELSE <<>>
        gates == Flatten([k \in DOMAIN ms |-> DiagonalizingGates(xs(ms[k]))])
        diag(m) == Measurement(m.sampled, m.hasobs,
                     [a \in DOMAIN m.words |->
                        [b \in DOMAIN m.words[a] |->
                            IF m.words[a][b].name = "PauliX"
                            THEN Leaf("PauliZ", m.words[a][b].wire)
                            ELSE m.words[a][b]]])
    IN {Outcome(NoError, ops \o gates, [k \in DOMAIN ms |-> diag(ms[k])], sa,
                NoMap, FALSE, FALSE)}

\* the name resolve_dynamic_wires gives the i-th zeroed work wire
VirtualQubit(i) ==
    StrW(<<"v", "i", "r", "t", "u", "a", "l", "-", "q", "u", "b", "i", "t", "-",
           CASE i = 0 -> "0" [] i = 1 -> "1" [] i = 2 -> "2" [] i = 3 -> "3"
             [] i = 4 -> "4" [] i = 5 -> "5" [] i = 6 -> "6" [] i = 7 -> "7"
             [] i = 8 -> "8" [] OTHER -> "9">>)

\* cnot_decomp
cnot_decomp(wires) ==
    <<Op("RY", <<wires[1]>>), Op("IsingXX", wires), Op("RX", <<wires[2]>>),
      Op("RX", <<wires[1]>>), Op("RY", <<wires[1]>>)>>

\* rot_decomp
rot_decomp(wires) == <<Op("R", wires), Op("R", wires), Op("GlobalPhase", <<>>)>>

\* gates whose only rule borrows a zeroed ancilla qubit (DYNAMIC_DECOMPS)
AncillaGates == {"Displacement"}

\* what decompose(gate_set, alt_decomps=DECOMPS) makes of one operation; a
\* gate without a rule into the gate set is left in place
DecomposeRule(op, gate_set, work_wire_free) ==
    CASE op.name \in gate_set -> <<op>>
      [] op.name = "CNOT" -> cnot_decomp(op.wires)
      [] op.name = "Rot" -> rot_decomp(op.wires)
      [] op.name = "Hadamard" ->
            <<Op("RZ", op.wires), Op("RX", op.wires), Op("RZ", op.wires),
              Op("GlobalPhase", <<>>)>>
      [] op.name = "Identity" -> <<>>
      [] op.name \in AncillaGates /\ work_wire_free ->
            <<Op("ConditionalDisplacement", <<VirtualQubit(0)>> \o op.wires)>>
      [] OTHER -> <<op>>

decompose(ops, gate_set, work_wire_free) ==
    Flatten([k \in DOMAIN ops |-> DecomposeRule(ops[k], gate_set, work_wire_free)])

Undecomposed(ops, gate_set) == \E k \in DOMAIN ops : ops[k].name \notin gate_set

\* remaining_work_wires of dynamic_gate_decompose: None unless max_qubits is given
remaining_work_wires_of(ops, ms, max_qubits) ==
    LET n_qubits == Cardinality(analyze(ops, ms).qubits) IN
    IF max_qubits # None THEN max_qubits - n_qubits ELSE None

\* zeroed=[f"virtual-qubit-{i}" for i in range(remaining_work_wires or 0)]
zeroed(remaining_work_wires) ==
    IF remaining_work_wires = None THEN {}
    ELSE {VirtualQubit(i) : i \in 0..(remaining_work_wires - 1)}

\* dynamic_gate_decompose(tape, sa_res=None, max_qubits, gate_set)
dynamic_gate_decompose(ops, ms, max_qubits) ==
    LET sa == analyze(ops, ms)
        remaining_work_wires == remaining_work_wires_of(ops, ms, max_qubits)
        work_wire_free == remaining_work_wires = None \/ remaining_work_wires >= 1
        out == decompose(ops, NATIVE_GATES_WITH_COST, work_wire_free)
        allocated == \E k \in DOMAIN ops : ops[k].name \in AncillaGates
    IN
    IF ~sa.ok
    THEN {Raise(Err("StaticAnalysisError", "aliased wire"), ops, ms, sa, FALSE)}
    ELSE IF allocated /\ remaining_work_wires = None
    THEN {Raise(Err("AllocationError", "no zeroed wire to resolve"), ops, ms, sa, FALSE)}
    ELSE {Outcome(NoError, out, ms, sa, NoMap, FALSE,
                  Undecomposed(out, NATIVE_GATES_WITH_COST))}

\* the wire_map of parse_hardware_wires: every wire of the tape to itself,
\* but a string wire that try_from_string parses to the Qumode it spells
hardware_wire_map(ops, ms) ==
    [w \in TapeWires(ops, ms) |->
        IF w.kind = "str" /\ try_from_string(w.s) # {}
        THEN CHOOSE q \in try_from_string(w.s) : TRUE
        ELSE w]

\* parse_hardware_wires
parse_hardware_wires(ops, ms, sa) ==
    LET wm == hardware_wire_map(ops, ms)
        out == map_wires_ops(ops, wm)
    IN
    IF ~WiresValid(out)
    THEN {Raise(Err("WireError", "wires must be unique"), ops, ms, sa, FALSE)}
    ELSE {Outcome(NoError, out, map_wires_ms(ms, wm), sa, NoMap, FALSE, FALSE)}

\* index in ops of the first operation that shares a wire with ws, or 0
NextOn(ops, ws) ==
    LET hits == {k \in DOMAIN ops : Range(ops[k].wires) \cap Range(ws) # {}} IN
    IF hits = {} THEN 0 ELSE CHOOSE k \in hits : \A j \in hits : k <= j

Without(ops, k) == SubSeq(ops, 1, k - 1) \o SubSeq(ops, k + 1, Len(ops))

SelfInverse == {"PauliX", "PauliY", "PauliZ", "Hadamard", "CNOT"}

\* attributes.composable_rotations restricted to the gates of the model
composable_rotations ==
    {"RX", "RY", "RZ", "IsingXX", "IsingYY", "IsingZZ", "Displacement",
     "JaynesCummings", "AntiJaynesCummings", "ConditionalDisplacement"}

RECURSIVE cancel_inverses(_)
\* a self-inverse gate followed on its wires by the same gate cancels with it
cancel_inverses(ops) ==
    IF ops = <<>> THEN <<>>
    ELSE LET h == Head(ops)
             t == Tail(ops)
             j == NextOn(t, h.wires)
         IN IF j # 0 /\ h.name \in SelfInverse /\ t[j].name = h.name /\ t[j].wires = h.wires
            THEN cancel_inverses(Without(t, j))
            ELSE <<h>> \o cancel_inverses(t)

RECURSIVE merge_rotations(_, _)
\* a rotation followed on its wires by the same rotation merges with it; the
\* merged gate is dropped when the angles add up to zero
merge_rotations(ops, zero) ==
    IF ops = <<>> THEN <<>>
    ELSE LET h == Head(ops)
             t == Tail(ops)
             j == NextOn(t, h.wires)
         IN IF j # 0 /\ h.name \in composable_rotations /\ t[j].name = h.name
                     /\ t[j].wires = h.wires
            THEN IF zero THEN merge_rotations(Without(t, j), zero)
                 ELSE merge_rotations(<<h>> \o Without(t, j), zero)
            ELSE <<h>> \o merge_rotations(t, zero)

Fusable == {"RX", "RY", "RZ", "Rot", "PauliX", "PauliY", "PauliZ", "Hadamard", "S", "SX"}

RECURSIVE single_qubit_fusion(_)
\* a single-qubit gate followed on its wire by another one fuses into a Rot
single_qubit_fusion(ops) ==
    IF ops = <<>> THEN <<>>
    ELSE LET h == Head(ops)
             t == Tail(ops)
             j == NextOn(t, h.wires)
         IN IF j # 0 /\ h.name \in Fusable /\ t[j].name \in Fusable /\ t[j].wires = h.wires
            THEN single_qubit_fusion(<<Op("Rot", h.wires)>> \o Without(t, j))
            ELSE <<h>> \o single_qubit_fusion(t)

\* Operator.simplify: a rotation by a zero angle becomes the Identity
simplify(ops, zero) ==
    [k \in DOMAIN ops |->
        IF zero /\ ops[k].name \in {"R", "RX", "RY", "RZ"}
        THEN Op("Identity", ops[k].wires) ELSE ops[k]]

\* combine_global_phases: one GlobalPhase at the end replaces all of them
combine_global_phases(ops, ms, sa) ==
    LET rest == SelectSeq(ops, LAMBDA o : o.name # "GlobalPhase")
        out == IF Len(rest) = Len(ops) THEN ops ELSE Append(rest, Op("GlobalPhase", <<>>))
    IN {Outcome(NoError, out, ms, sa, NoMap, FALSE, FALSE)}

\* the passes of the optimize block
Transformed(outs, ops, ms, sa, gate_set) ==
    {Outcome(NoError, o, ms, sa, NoMap, FALSE, Undecomposed(o, gate_set) /\ gate_set # {}) :
        o \in outs}

\* validate_device_wires
validate_device_wires(ops, ms, sa, max_qubits, enable_com_modes) ==
    LET physical_wires ==
            _get_allowed_device_wires(IF max_qubits = None \/ max_qubits = 0
                                      THEN _max_qubits ELSE max_qubits, enable_com_modes)
    IN IF TapeWires(ops, ms) \subseteq physical_wires
       THEN {Outcome(NoError, ops, ms, sa, NoMap, FALSE, FALSE)}
       ELSE {Raise(Err("WireError", "wires not found on device"), ops, ms, sa, FALSE)}

\* is_sampled_observable_supported: a Pauli sentence of exactly one word
is_sampled_observable_supported(m) ==
    /\ \A l \in MeasLeaves(m) : l.name \in QubitObs
    /\ Len(m.words) = 1

\* variant of accepted_sample_measurement: the kind of measurement is not
\* looked at
accepted_sample_measurement_any_kind(m) ==
    IF m.hasobs THEN is_sampled_observable_supported(m)
    ELSE TRUE

\* accepted_sample_measurement
accepted_sample_measurement(m) ==
    IF ~m.sampled THEN FALSE
    ELSE IF m.hasobs THEN is_sampled_observable_supported(m)
    ELSE TRUE

\* validate_measurements(analytic_measurements=lambda *_: False, ...)
validate_measurements(ops, ms, sa) ==
    IF \A k \in DOMAIN ms : accepted_sample_measurement(ms[k])
    THEN {Outcome(NoError, ops, ms, sa, NoMap, FALSE, FALSE)}
    ELSE {Raise(Err("DeviceError", "measurement not accepted"), ops, ms, sa, FALSE)}

\* variant of validate_gates_supported_on_hardware: nothing is checked
validate_gates_unchecked(ops, ms, sa) ==
    {Outcome(NoError, ops, ms, sa, NoMap, FALSE, FALSE)}

\* validate_gates_supported_on_hardware
validate_gates_supported_on_hardware(ops, ms, sa) ==
    IF \A k \in DOMAIN ops : is_gate_supported(ops[k])
    THEN {Outcome(NoError, ops, ms, sa, NoMap, FALSE, FALSE)}
    ELSE {Raise(Err("DeviceError", "operation is not supported natively"), ops, ms, sa, FALSE)}

\* variant of get_compiler: the layout is added whatever use_virtual_wires is
\* and the gates are validated before the global phases are combined
get_compiler_misordered(optimize, max_qubits, enable_com_modes, use_virtual_wires) ==
    <<"from_pennylane", "diagonalize_measurements", "dynamic_gate_decompose",
      "parse_hardware_wires", "layout_wires">>
    \o (IF optimize
        THEN <<"commute_controlled", "cancel_inverses", "merge_rotations",
               "single_qubit_fusion", "decompose", "_simplify_transform", "decompose">>
        ELSE <<>>)
    \o <<"validate_device_wires", "validate_measurements",
         "validate_gates_supported_on_hardware", "combine_global_phases">>

\* get_compiler: the transforms of the pipeline, in the order they are added
get_compiler(optimize, max_qubits, enable_com_modes, use_virtual_wires) ==
    <<"from_pennylane", "diagonalize_measurements", "dynamic_gate_decompose">>
    \o <<"parse_hardware_wires">>
    \o (IF use_virtual_wires THEN <<"layout_wires">> ELSE <<>>)
    \o (IF optimize
        THEN <<"commute_controlled", "cancel_inverses", "merge_rotations",
               "single_qubit_fusion", "decompose", "_simplify_transform", "decompose">>
        ELSE <<>>)
    \o <<"combine_global_phases">>
    \o <<"validate_device_wires", "validate_measurements",
         "validate_gates_supported_on_hardware">>

-----------------------------------------------------------------------------
(* Circuits the model is run on *)

q0 == IntW(0)
q1 == IntW(1)
q2 == IntW(2)
qv == StrW(<<"q">>)
m1 == StrW(<<"m", "1">>)
m2 == StrW(<<"m", "2">>)
m3 == StrW(<<"m", "3">>)

\* sequences over a set of operations of length at most n
RECURSIVE SeqsUpTo(_, _)
SeqsUpTo(S, n) ==
    IF n = 0 THEN {<<>>}
    ELSE LET shorter == SeqsUpTo(S, n - 1) IN
         shorter \cup {Append(c, x) : c \in shorter, x \in S}

\* gates already in the native set, on virtual, hardware and mixed wires,
\* one gate without native form and one gate that aliases a qumode as a qubit
LayoutOps ==
    {Op("RX", <<q0>>), Op("RX", <<qv>>), Op("IsingXX", <<q1, q2>>),
     Op("JaynesCummings", <<q0, m1>>), Op("JaynesCummings", <<qv, Qumode(1, 1)>>),
     Op("AntiJaynesCummings", <<q0, IntW(1)>>),
     Op("AntiJaynesCummings", <<q0, Qumode(0, 0)>>),
     Op("ConditionalXSqueezing", <<q1, m3>>),
     Op("ConditionalXSqueezing", <<q0, Qumode(0, 1)>>),
     Op("NativeBeamsplitter", <<q0, m1, m2>>), Op("NativeBeamsplitter", <<q2, m1, m2>>),
     Op("ModeSwap", <<m1, m2>>), Op("PauliX", <<m1>>)}

\* TestLayout.test_no_valid_assignment
NoValidAssignmentCircuit ==
    <<Op("NativeBeamsplitter", <<q0, m1, m2>>), Op("ConditionalXSqueezing", <<q1, m3>>)>>

LayoutCircuits == SeqsUpTo(LayoutOps, MaxLayoutOps) \cup {NoValidAssignmentCircuit}

SampleZ(w) == Measurement(TRUE, TRUE, <<(<<Leaf("PauliZ", w)>>)>>)

LayoutMeasurements == {<<>>, <<SampleZ(q0)>>, <<SampleZ(StrW(<<"a">>))>>}

MaxQubitsOptions == {None} \cup (1..MaxQ)

Options(optimize, max_qubits, enable_com_modes, use_virtual_wires) ==
    [optimize |-> optimize, max_qubits |-> max_qubits,
     enable_com_modes |-> enable_com_modes, use_virtual_wires |-> use_virtual_wires]

NoDevice == [made |-> FALSE, n_qubits |-> None, optimize |-> TRUE,
             enable_com_modes |-> FALSE, use_virtual_wires |-> TRUE]
NoConfig == [set |-> FALSE, n_qubits |-> None, optimize |-> TRUE,
             enable_com_modes |-> FALSE, use_virtual_wires |-> TRUE]

-----------------------------------------------------------------------------
(* Running a pipeline: the transforms are applied one after the other; an   *)
(* exception raised by a transform ends the run.                            *)

\* the possible outcomes of the transform called name on the current tape
StageOutcomes(name) ==
    CASE name = "layout_wires" ->
            layout_wires(tape, meas, opts.max_qubits, opts.enable_com_modes)
      [] name = "analyze" -> analyze_tape(tape, meas)
      [] name = "from_pennylane" -> from_pennylane(tape, meas, sa_res)
      [] name = "diagonalize_measurements" -> diagonalize_measurements(tape, meas, sa_res)
      [] name = "dynamic_gate_decompose" ->
            dynamic_gate_decompose(tape, meas, opts.max_qubits)
      [] name = "parse_hardware_wires" -> parse_hardware_wires(tape, meas, sa_res)
      [] name = "commute_controlled" -> Transformed({tape}, tape, meas, sa_res, {})
      [] name = "cancel_inverses" ->
            Transformed({cancel_inverses(tape)}, tape, meas, sa_res, {})
      [] name = "merge_rotations" ->
            Transformed({merge_rotations(tape, z) : z \in BOOLEAN}, tape, meas, sa_res, {})
      [] name = "single_qubit_fusion" ->
            Transformed({single_qubit_fusion(tape)}, tape, meas, sa_res, {})
      [] name = "decompose" ->
            Transformed({decompose(tape, NATIVE_GATES_WITH_COST, FALSE)}, tape, meas,
                        sa_res, NATIVE_GATES_WITH_COST)
      [] name = "_simplify_transform" ->
            Transformed({simplify(tape, z) : z \in BOOLEAN}, tape, meas, sa_res, {})
      [] name = "combine_global_phases" -> combine_global_phases(tape, meas, sa_res)
      [] name = "validate_device_wires" ->
            validate_device_wires(tape, meas, sa_res, opts.max_qubits, opts.enable_com_modes)
      [] name = "validate_measurements" -> validate_measurements(tape, meas, sa_res)
      [] name = "validate_gates_supported_on_hardware" ->
            validate_gates_supported_on_hardware(tape, meas, sa_res)

Step(name) ==
    /\ status = "running"
    /\ pc < Len(pipeline)
    /\ pipeline[pc + 1] = name
    /\ \E r \in StageOutcomes(name) :
        /\ pc' = pc + 1
        /\ trace' = Append(trace, name)
        /\ error' = r.error
        /\ status' = IF r.error # NoError THEN "error"
                     ELSE IF pc + 1 = Len(pipeline) THEN "done" ELSE "running"
        /\ tape' = r.tape
        /\ meas' = r.meas
        /\ sa_res' = r.sa
        /\ wire_map' = IF r.solved THEN r.wire_map ELSE wire_map
        /\ solver_calls' = IF r.solved THEN solver_calls + 1 ELSE solver_calls
        /\ warned' = (warned \/ r.warned)
        /\ prev' = [tape |-> tape, meas |-> meas]
    /\ UNCHANGED <<dev, config, opts, pipeline, qc, codec, call>>

LayoutWires == Step("layout_wires")

-----------------------------------------------------------------------------
(* The layout transform called on its own *)

InitLayout ==
    /\ dev = NoDevice
    /\ config = NoConfig
    /\ \E mq \in MaxQubitsOptions, com \in BOOLEAN : opts = Options(FALSE, mq, com, TRUE)
    /\ pipeline = <<"layout_wires">>
    /\ pc = 0
    /\ tape \in LayoutCircuits
    /\ meas \in LayoutMeasurements
    /\ status = "running"
    /\ error = NoError
    /\ trace = <<>>
    /\ sa_res = NoAnalysis
    /\ wire_map = NoMap
    /\ solver_calls = 0
    /\ warned = FALSE
    /\ prev = [tape |-> <<>>, meas |-> <<>>]
    /\ qc = NoQC
    /\ codec = NoCodec
    /\ call = NoCall

NextLayout == LayoutWires

SpecLayout == InitLayout /\ [][NextLayout]_vars

\* the qubit budget in force in layout_wires
Budget == IF opts.max_qubits = None THEN Cardinality(sa_res.qubits) ELSE opts.max_qubits

LayoutReturned == solver_calls > 0 /\ error = NoError

LayoutRan == trace # <<>> /\ trace[Len(trace)] = "layout_wires"

\* the hardware wires a wire of the analysed circuit may be given
HardwareQubit(w) == w.kind = "int" /\ w.i \in 0..(Budget - 1)
HardwareQumode(w) ==
    /\ w.kind = "qumode"
    /\ w.m \in {0, 1}
    /\ w.i < Budget
    /\ w.i >= (IF opts.enable_com_modes THEN 0 ELSE 1)

\* the operation with its wires replaced position by position
Placed(op) == Op(op.name, [k \in DOMAIN op.wires |-> wire_map[op.wires[k]]])

\* no assignment of hardware wires to the wires of op makes it supported
Unplaceable(op) ==
    \A f \in [Range(op.wires) -> _get_allowed_device_wires(Budget, TRUE)] :
        ~is_gate_supported(map_wires_op(op, f))

-----------------------------------------------------------------------------
(* Properties of the layout *)

\* C3: every wire map returned by the layout solver is injective: no two
\* distinct virtual wires, qubit or qumode, get the same physical wire.
C3_LayoutAllDifferent ==
    LayoutReturned =>
        \A a, b \in DOMAIN wire_map : a # b => wire_map[a] # wire_map[b]

\* a layout of a circuit with two virtual qumodes and a virtual qubit
C3_Witness ==
    /\ LayoutReturned
    /\ \E a, b \in sa_res.qumodes : a # b /\ a.kind = "str" /\ b.kind = "str"
    /\ \E c, d \in sa_res.qubits : c # d

\* C4: in every wire map returned, each operation of the circuit with its
\* wires replaced position by position by the assigned physical wires
\* satisfies is_gate_supported; when some operation is supported under no
\* assignment at all, no map is returned.
C4_LayoutGatesSupported ==
    LayoutReturned =>
        \A k \in DOMAIN prev.tape :
            /\ is_gate_supported(Placed(prev.tape[k]))
            /\ ~Unplaceable(prev.tape[k])

\* a layout that had to move the qumodes of a beamsplitter onto the tilt modes
C4_Witness ==
    /\ LayoutReturned
    /\ \E k \in DOMAIN prev.tape :
        /\ prev.tape[k].name = "NativeBeamsplitter"
        /\ prev.tape[k].wires[2].kind = "str"
        /\ tape[k].wires[2].kind = "qumode"

\* C5: every wire map returned is total on the wires of the circuit and keeps
\* the wire types: a Qubit wire gets a physical qubit 0..max_qubits-1, a
\* Qumode wire a Qumode(m, i) with m in {0,1}, i < max_qubits, and i >= 1
\* when centre-of-mass modes are disabled.
C5_LayoutTypedTotal ==
    LayoutReturned =>
        /\ DOMAIN wire_map = TapeWires(prev.tape, prev.meas)
        /\ \A w \in DOMAIN wire_map :
            /\ w \in sa_res.qubits \cup sa_res.qumodes
            /\ w \in sa_res.qubits => HardwareQubit(wire_map[w])
            /\ w \in sa_res.qumodes => HardwareQumode(wire_map[w])

\* a layout without centre-of-mass modes that placed a virtual qumode, and a
\* qubit that only a measurement touches
C5_Witness ==
    /\ LayoutReturned
    /\ ~opts.enable_com_modes
    /\ \E w \in sa_res.qumodes : w.kind # "qumode"
    /\ \E w \in sa_res.qubits : w \notin UNION {Range(prev.tape[k].wires) : k \in DOMAIN prev.tape}

\* C6: in every wire map returned, a wire whose label already is a physical
\* wire of its own type is mapped to itself.
C6_LayoutIdentityPinned ==
    LayoutReturned =>
        \A w \in DOMAIN wire_map :
            ((w \in sa_res.qubits /\ HardwareQubit(w))
                \/ (w \in sa_res.qumodes /\ HardwareQumode(w)))
            => (wire_map[w] = w)

\* a layout of a circuit that mixes a hardware-labelled qumode and qubit with
\* virtual ones
C6_Witness ==
    /\ LayoutReturned
    /\ \E w \in sa_res.qumodes : HardwareQumode(w)
    /\ \E w \in sa_res.qubits : HardwareQubit(w)
    /\ \E w \in sa_res.qubits : ~HardwareQubit(w)

\* C7: a circuit over the qubit budget, or over the qumode budget
\* (2*max_qubits with centre-of-mass modes, 2*max_qubits - 2 without), makes
\* layout_wires raise DeviceError before the solver is built or called, and
\* the circuit is not cut down.
C7_OverBudgetRejected ==
    (/\ LayoutRan
     /\ sa_res.ok
     /\ \/ Cardinality(sa_res.qubits) > Budget
        \/ Cardinality(sa_res.qumodes) >
                (IF opts.enable_com_modes THEN 2 * Budget ELSE 2 * Budget - 2))
    => (/\ status = "error"
        /\ error.type = "DeviceError"
        /\ solver_calls = 0
        /\ tape = prev.tape)

\* one qumode more than the budget without centre-of-mass modes
C7_Witness ==
    /\ LayoutRan
    /\ sa_res.ok
    /\ ~opts.enable_com_modes
    /\ Cardinality(sa_res.qubits) <= Budget
    /\ Cardinality(sa_res.qumodes) = 2 * Budget - 1
    /\ error.type = "DeviceError"

WithinBudget ==
    /\ sa_res.ok
    /\ Cardinality(sa_res.qubits) <= Budget
    /\ Cardinality(sa_res.qumodes) <=
            (IF opts.enable_com_modes THEN 2 * Budget ELSE 2 * Budget - 2)

\* a beamsplitter on two qumodes and a ConditionalXSqueezing on a third one
BeamsplitterAndSqueezing(ops) ==
    \E a, b \in DOMAIN ops :
        /\ ops[a].name = "NativeBeamsplitter"
        /\ ops[b].name = "ConditionalXSqueezing"
        /\ ops[b].wires[2] \notin Range(ops[a].wires)

\* C8: when both budget checks pass and the CSP has no solution, layout_wires
\* raises the DeviceError "no layout was found", which the over-budget errors
\* never carry; a circuit with a NativeBeamsplitter on two qumodes and a
\* ConditionalXSqueezing on a third qumode has no layout.
C8_NoLayoutError ==
    LayoutRan =>
        /\ (WithinBudget /\ _constrained_layout(prev.tape, sa_res, Budget,
                                               opts.enable_com_modes) = {})
            => (status = "error" /\ error = Err("DeviceError", "no layout was found"))
        /\ (error.msg = "no layout was found") => WithinBudget
        /\ BeamsplitterAndSqueezing(prev.tape) =>
            (status = "error" /\ (WithinBudget => error.msg = "no layout was found"))

\* TestLayout.test_no_valid_assignment: three qubits, centre-of-mass enabled
C8_Witness ==
    /\ LayoutRan
    /\ prev.tape = NoValidAssignmentCircuit
    /\ opts.max_qubits = 3
    /\ opts.enable_com_modes
    /\ error = Err("DeviceError", "no layout was found")

-----------------------------------------------------------------------------
(* Static analysis called on its own *)

\* observables of the wire-type tests: a number operator or a quadrature on
\* wire 0 with a Pauli on wire 1, and the aliased NumberOperator(0) @ PauliZ(0)
Expval(words) == Measurement(FALSE, TRUE, words)

AnalyzeMeasurements ==
    {<<>>,
     <<Expval(<<(<<Leaf("NumberOperator", q0), Leaf("PauliX", q1)>>)>>)>>,
     <<Expval(<<(<<Leaf("QuadX", q0), Leaf("PauliX", q1)>>)>>)>>,
     <<Expval(<<(<<Leaf("NumberOperator", q0), Leaf("PauliZ", q0)>>)>>)>>,
     <<Expval(<<(<<Leaf("NumberOperator", q0)>>), (<<Leaf("PauliZ", q0)>>)>>)>>,
     <<Expval(<<(<<Leaf("NumberOperator", m1)>>)>>), SampleZ(qv)>>}

\* the gates of TestWireTypeChecking and TestValidateWireTypes
AnalyzeOps ==
    {Op("ConditionalDisplacement", <<q0, q1>>), Op("PauliX", <<q1>>),
     Op("PauliX", <<q0>>), Op("Displacement", <<q0>>), Op("Displacement", <<q1>>),
     Op("NativeBeamsplitter", <<qv, m1, m2>>), Op("IsingXX", <<qv, q2>>)}

AnalyzeCircuits == SeqsUpTo(AnalyzeOps, MaxLayoutOps)

InitAnalyze ==
    /\ dev = NoDevice
    /\ config = NoConfig
    /\ opts = Options(FALSE, None, FALSE, TRUE)
    /\ pipeline = <<"analyze">>
    /\ pc = 0
    /\ tape \in AnalyzeCircuits
    /\ meas \in AnalyzeMeasurements
    /\ status = "running"
    /\ error = NoError
    /\ trace = <<>>
    /\ sa_res = NoAnalysis
    /\ wire_map = NoMap
    /\ solver_calls = 0
    /\ warned = FALSE
    /\ prev = [tape |-> <<>>, meas |-> <<>>]
    /\ qc = NoQC
    /\ codec = NoCodec
    /\ call = NoCall

Analyze == Step("analyze")

NextAnalyze == Analyze

SpecAnalyze == InitAnalyze /\ [][NextAnalyze]_vars

\* C10: when analyze succeeds the qubit set and the qumode set of the result
\* are disjoint and together are exactly the wires touched by an operation
\* or a measurement of the circuit.
C10_WireTypesPartition ==
    (status = "done" /\ trace = <<"analyze">>) =>
        /\ sa_res.ok
        /\ sa_res.qubits \cap sa_res.qumodes = {}
        /\ sa_res.qubits \cup sa_res.qumodes = TapeWires(tape, meas)

\* TestWireTypeChecking.test_no_operations: the types come from the observable
C10_Witness ==
    /\ status = "done"
    /\ trace = <<"analyze">>
    /\ tape = <<>>
    /\ sa_res.qumodes = {q0}
    /\ sa_res.qubits = {q1}

\* the uses of a wire: positions of the tape and leaves of the observables
QubitUses(ops, ms, w) ==
    {<<"op", k>> : k \in {j \in DOMAIN ops : w \in OpQubits(ops[j])}}
    \cup {<<"obs", k>> : k \in {j \in DOMAIN ms :
                \E l \in MeasLeaves(ms[j]) : l.wire = w /\ l.name \in QubitObs}}

QumodeUses(ops, ms, w) ==
    {<<"op", k>> : k \in {j \in DOMAIN ops : w \in OpQumodes(ops[j])}}
    \cup {<<"obs", k>> : k \in {j \in DOMAIN ms :
                \E l \in MeasLeaves(ms[j]) : l.wire = w /\ l.name \in QumodeObs}}

Aliased(ops, ms) ==
    \E w \in TapeWires(ops, ms) :
        QubitUses(ops, ms, w) # {} /\ QumodeUses(ops, ms, w) # {}

\* C11: when some wire is used as a qumode by one operation or observable
\* and as a qubit by another, analyze ends in StaticAnalysisError and leaves
\* no result, and so it does on the same operations in the opposite order.
C11_AliasingRaises ==
    (trace = <<"analyze">> /\ Aliased(prev.tape, prev.meas)) =>
        /\ status = "error"
        /\ error.type = "StaticAnalysisError"
        /\ sa_res = NoAnalysis
        /\ \A r \in analyze_tape(Reversed(prev.tape), prev.meas) :
                r.error.type = "StaticAnalysisError" /\ r.sa = NoAnalysis

\* the qumode operand of a ConditionalDisplacement is then the target of a
\* Pauli-X
C11_Witness ==
    /\ trace = <<"analyze">>
    /\ status = "error"
    /\ prev.tape = <<Op("ConditionalDisplacement", <<q0, q1>>), Op("PauliX", <<q1>>)>>
    /\ prev.meas = <<>>

-----------------------------------------------------------------------------
(* The device front end and the compile pipeline *)

\* circuits of TestDevice.too_many_qubits: one gate on each of n qubits
RECURSIVE WideCircuit(_)
WideCircuit(n) == IF n = 0 THEN <<>> ELSE Append(WideCircuit(n - 1), Op("RX", <<IntW(n - 1)>>))

hw11 == StrW(<<"m", "1", "i", "1">>)
hw01 == StrW(<<"m", "0", "i", "1">>)
hw13 == StrW(<<"m", "1", "i", "3">>)

\* gates of the device tests: native, decomposable, ancilla-assisted, without
\* native form, and violating the topology
PipelineOps ==
    {Op("RX", <<q0>>), Op("Hadamard", <<q0>>), Op("CNOT", <<q0, q1>>), Op("Rot", <<qv>>),
     Op("JaynesCummings", <<q0, hw11>>), Op("JaynesCummings", <<qv, m1>>),
     Op("Displacement", <<m1>>), Op("ModeSwap", <<hw11, hw13>>),
     Op("ConditionalXSqueezing", <<q0, hw13>>), Op("ConditionalXSqueezing", <<q0, m1>>),
     Op("NativeBeamsplitter", <<q0, hw11, hw01>>)}

TestCircuits ==
    {<<Op("JaynesCummings", <<q0, hw11>>), Op("AntiJaynesCummings", <<q0, hw11>>)>>,
     <<Op("ConditionalDisplacement", <<q0, hw11>>), Op("ConditionalDisplacement", <<q0, hw11>>)>>,
     <<Op("Hadamard", <<q0>>), Op("CNOT", <<q0, q1>>)>>,
     <<Op("RX", <<q0>>), Op("RX", <<q0>>)>>,
     <<Op("ConditionalDisplacement", <<q0, q1>>), Op("PauliX", <<q0>>)>>,
     <<Op("JaynesCummings", <<q0, hw11>>), Op("JaynesCummings", <<q1, Qumode(1, 1)>>)>>,
     NoValidAssignmentCircuit}

PipelineCircuits ==
    SeqsUpTo(PipelineOps, MaxOps) \cup TestCircuits \cup {WideCircuit(n) : n \in 1..MaxWide}

SampleX(w) == Measurement(TRUE, TRUE, <<(<<Leaf("PauliX", w)>>)>>)

PipelineMeasurements ==
    {<<SampleZ(q0)>>, <<SampleZ(qv)>>, <<SampleX(q0)>>, <<Expval(<<(<<Leaf("PauliZ", q0)>>)>>)>>,
     <<Measurement(TRUE, FALSE, <<>>)>>,
     <<Measurement(TRUE, TRUE, <<(<<Leaf("PauliZ", q0)>>), (<<Leaf("PauliZ", q1)>>)>>)>>,
     <<Measurement(TRUE, TRUE, <<(<<Leaf("NumberOperator", hw11)>>)>>)>>}

DeviceQubitOptions == {None, 2, _max_qubits + 1}

Init ==
    /\ dev = NoDevice
    /\ config = NoConfig
    /\ opts = Options(TRUE, None, FALSE, TRUE)
    /\ pipeline = <<>>
    /\ pc = 0
    /\ tape \in PipelineCircuits
    /\ meas \in PipelineMeasurements
    /\ status = "new"
    /\ error = NoError
    /\ trace = <<>>
    /\ sa_res = NoAnalysis
    /\ wire_map = NoMap
    /\ solver_calls = 0
    /\ warned = FALSE
    /\ prev = [tape |-> <<>>, meas |-> <<>>]
    /\ qc = NoQC
    /\ codec = NoCodec
    /\ call = NoCall

\* QscoutIonTrap.__init__
DeviceInit ==
    /\ status = "new"
    /\ \E n \in DeviceQubitOptions, o, c, u \in BOOLEAN :
        IF n # None /\ n > _max_qubits
        THEN /\ status' = "error"
             /\ error' = Err("DeviceError", "requested more qubits than available")
             /\ dev' = dev
        ELSE /\ status' = "constructed"
             /\ error' = error
             /\ dev' = [made |-> TRUE, n_qubits |-> n, optimize |-> o,
                        enable_com_modes |-> c, use_virtual_wires |-> u]
    /\ UNCHANGED <<config, opts, pipeline, pc, tape, meas, trace, sa_res, wire_map,
                   solver_calls, warned, prev,
                   qc, codec, call>>

\* QscoutIonTrap.setup_execution_config(config, circuit), called with the
\* circuit or without it
SetupExecutionConfig ==
    /\ status = "constructed"
    /\ \E with_circuit \in BOOLEAN :
        LET infer == with_circuit /\ Len(tape) + Len(meas) > 0 /\ dev.n_qubits = None
            sa == analyze(tape, meas)
        IN IF infer /\ ~sa.ok
           THEN /\ status' = "error"
                /\ error' = Err("StaticAnalysisError", "aliased wire")
                /\ config' = config
                /\ sa_res' = sa
           ELSE /\ status' = "configured"
                /\ error' = error
                /\ config' = [set |-> TRUE,
                              n_qubits |-> IF infer THEN Cardinality(sa.qubits)
                                           ELSE dev.n_qubits,
                              optimize |-> dev.optimize,
                              enable_com_modes |-> dev.enable_com_modes,
                              use_virtual_wires |-> dev.use_virtual_wires]
                /\ sa_res' = IF infer THEN sa ELSE sa_res
    /\ UNCHANGED <<dev, opts, pipeline, pc, tape, meas, trace, wire_map, solver_calls,
                   warned, prev,
                   qc, codec, call>>

\* QscoutIonTrap.preprocess_transforms
PreprocessTransforms ==
    /\ status = "configured"
    /\ LET max_qubits == IF config.n_qubits # None /\ config.n_qubits # 0
                         THEN config.n_qubits ELSE _max_qubits
       IN /\ opts' = Options(config.optimize, max_qubits, config.enable_com_modes,
                             config.use_virtual_wires)
          /\ pipeline' = get_compiler(config.optimize, max_qubits,
                                      config.enable_com_modes, config.use_virtual_wires)
    /\ status' = "running"
    /\ UNCHANGED <<dev, config, pc, tape, meas, error, trace, sa_res, wire_map,
                   solver_calls, warned, prev,
                   qc, codec, call>>

\* get_compiler called directly with its keyword arguments
GetCompiler ==
    /\ status = "new"
    /\ \E o, c, u \in BOOLEAN, mq \in MaxQubitsOptions :
        /\ opts' = Options(o, mq, c, u)
        /\ pipeline' = get_compiler(o, mq, c, u)
    /\ status' = "running"
    /\ UNCHANGED <<dev, config, pc, tape, meas, error, trace, sa_res, wire_map,
                   solver_calls, warned, prev,
                   qc, codec, call>>

FromPennylane == Step("from_pennylane")
DiagonalizeMeasurements == Step("diagonalize_measurements")
DynamicGateDecompose == Step("dynamic_gate_decompose")
ParseHardwareWires == Step("parse_hardware_wires")
CommuteControlled == Step("commute_controlled")
CancelInverses == Step("cancel_inverses")
MergeRotations == Step("merge_rotations")
SingleQubitFusion == Step("single_qubit_fusion")
Decompose == Step("decompose")
SimplifyTransform == Step("_simplify_transform")
CombineGlobalPhases == Step("combine_global_phases")
ValidateDeviceWires == Step("validate_device_wires")
ValidateMeasurements == Step("validate_measurements")
ValidateGatesSupportedOnHardware == Step("validate_gates_supported_on_hardware")

Next ==
    \/ DeviceInit
    \/ SetupExecutionConfig
    \/ PreprocessTransforms
    \/ GetCompiler
    \/ FromPennylane
    \/ DiagonalizeMeasurements
    \/ DynamicGateDecompose
    \/ ParseHardwareWires
    \/ LayoutWires
    \/ CommuteControlled
    \/ CancelInverses
    \/ MergeRotations
    \/ SingleQubitFusion
    \/ Decompose
    \/ SimplifyTransform
    \/ CombineGlobalPhases
    \/ ValidateDeviceWires
    \/ ValidateMeasurements
    \/ ValidateGatesSupportedOnHardware

Spec == Init /\ [][Next]_vars

-----------------------------------------------------------------------------
(* Properties of the pipeline *)

OptimizePasses ==
    {"commute_controlled", "cancel_inverses", "merge_rotations", "single_qubit_fusion",
     "decompose", "_simplify_transform"}

Validators ==
    {"validate_device_wires", "validate_measurements", "validate_gates_supported_on_hardware"}

\* the stage of the pipeline a transform belongs to: 1 ingest, 2 diagonalize,
\* 3 gate-set decomposition, 4 hardware-wire parsing, 5 layout,
\* 6 optimization, 7 global-phase combination, 8 validation
StageOf(t) ==
    CASE t = "from_pennylane" -> 1
      [] t = "diagonalize_measurements" -> 2
      [] t = "dynamic_gate_decompose" -> 3
      [] t = "parse_hardware_wires" -> 4
      [] t = "layout_wires" -> 5
      [] t \in OptimizePasses -> 6
      [] t = "combine_global_phases" -> 7
      [] t \in Validators -> 8
      [] OTHER -> 0

Optional(stage) ==
    \/ stage = 5 /\ ~opts.use_virtual_wires
    \/ stage = 6 /\ ~opts.optimize

StagesInOrder ==
    LET st == [k \in DOMAIN trace |-> StageOf(trace[k])] IN
    /\ trace # <<>> => st[1] = 1
    /\ \A k \in 1..(Len(trace) - 1) :
        /\ st[k] <= st[k + 1]
        /\ st[k] = st[k + 1] => st[k] \in {6, 8}
        /\ \A r \in (st[k] + 1)..(st[k + 1] - 1) : Optional(r)
    /\ \A k \in DOMAIN trace : ~Optional(st[k])
    /\ status = "done" =>
        /\ trace # <<>>
        /\ trace[Len(trace)] = "validate_gates_supported_on_hardware"
        /\ \A r \in 1..8 : Optional(r) \/ r \in Range(st)

\* C2: the stages run in the order ingest, diagonalize, decomposition,
\* hardware-wire parsing, layout (iff use_virtual_wires), optimization (iff
\* optimize), global-phase combination, validation; validation is last, no
\* stage is entered twice, and after a stage has raised nothing more runs
\* and no circuit is returned.
C2_StageOrder ==
    /\ []StagesInOrder
    /\ [][status = "error" => (status' = "error" /\ trace' = trace /\ tape' = tape)]_vars
    /\ [][status = "done" => trace' = trace]_vars

\* a run through all eight stages that returned a circuit
C2_Witness ==
    /\ status = "done"
    /\ opts.optimize
    /\ opts.use_virtual_wires
    /\ Len(trace) = 16

\* C9: the device takes at most 6 qubits: __init__ refuses n_qubits > 6, the
\* max_qubits handed to the pipeline by preprocess_transforms is at most 6,
\* and no circuit on more than 6 qubits is compiled.
C9_AtMostSixQubits ==
    /\ dev.made => dev.n_qubits <= _max_qubits
    /\ (dev.made /\ pipeline # <<>>) => opts.max_qubits <= _max_qubits
    /\ (dev.made /\ status = "done") =>
            Cardinality(UsedAsQubit(tape, meas)) <= _max_qubits

-----------------------------------------------------------------------------
(* The operator algebra on its own *)

\* the pipeline is not touched by the algebra and the codec
PipelineIdle ==
    /\ dev = NoDevice
    /\ config = NoConfig
    /\ opts = Options(TRUE, None, FALSE, TRUE)
    /\ pipeline = <<>>
    /\ pc = 0
    /\ tape = <<>>
    /\ meas = <<>>
    /\ status = "new"
    /\ error = NoError
    /\ trace = <<>>
    /\ sa_res = NoAnalysis
    /\ wire_map = NoMap
    /\ solver_calls = 0
    /\ warned = FALSE
    /\ prev = [tape |-> <<>>, meas |-> <<>>]

w0 == IntW(0)
w1 == IntW(1)

\* the base operators of TestQubitConditioned, TestDecomposition and
\* TestGraphDecomposition, and two without a conditioned form of their own
BaseOperators ==
    {Operator("Displacement", <<3, 5>>, <<w0>>), Operator("Fourier", <<>>, <<w0>>),
     Operator("Squeezing", <<3, 5>>, <<w0>>), Operator("Beamsplitter", <<3, 5>>, <<w0, w1>>),
     Operator("TwoModeSqueezing", <<3, 5>>, <<w0, w1>>),
     Operator("TwoModeSum", <<3>>, <<w0, w1>>), Operator("RZ", <<3>>, <<w0>>),
     Operator("IsingZZ", <<3>>, <<w0, w1>>), Operator("MultiRZ", <<3>>, <<w0, w1>>),
     Operator("Identity", <<>>, <<w0>>), Operator("GlobalPhase", <<3>>, <<w0>>),
     Operator("Rotation", <<3>>, <<w0>>), Operator("RX", <<3>>, <<w0>>),
     Operator("ConditionalDisplacement", <<3, 5>>, <<w0, w1>>)}

\* Wires(control_wires): duplicate-free sequences of wire labels
ControlWires ==
    {cw \in UNION {[1..n -> {IntW(k) : k \in 0..MaxWire}] : n \in 1..MaxControls} :
        NoDuplicates(cw)}

GateSets ==
    {{"ConditionalParity", "CNOT"}, {"ConditionalBeamsplitter", "CNOT"},
     {"ConditionalDisplacement", "CNOT"}, {"ConditionalRotation", "CNOT"}}

InitQCond ==
    /\ PipelineIdle
    /\ \E b \in BaseOperators : qc = [NoQC EXCEPT !.phase = "operator", !.op = b]
    /\ codec = NoCodec
    /\ call = NoCall

\* qcond(op, control_wires) / QubitConditioned(op, control_wires), also of a
\* subclass that brings its own compute_decomposition
QCond ==
    /\ qc.phase = "operator"
    /\ Len(qc.op.controls) < MaxDepth
    /\ ~qc.op.custom
    /\ \E cw \in ControlWires, sub \in BOOLEAN :
        LET r == qcond(qc.op, cw) IN
        qc' = [qc EXCEPT !.phase = IF r.error = "none" THEN "operator" ELSE "rejected",
                         !.base = qc.op,
                         !.control_wires = cw,
                         !.op = IF r.error = "none" THEN [r.op EXCEPT !.custom = sub]
                                ELSE NoOperator,
                         !.error = r.error]
    /\ UNCHANGED <<pipevars, codec, call>>

\* op.decomposition()
Decomposition ==
    /\ qc.phase = "operator"
    /\ qc.op.controls # <<>>
    /\ LET r == decomposition(qc.op) IN
       qc' = [qc EXCEPT !.phase = IF r.error = "none" THEN "decomposed" ELSE "undefined",
                        !.out = r.ops,
                        !.error = r.error]
    /\ UNCHANGED <<pipevars, codec, call>>

\* the resource key of the operator is taken
ResourceRep ==
    /\ qc.phase = "operator"
    /\ qc.op.controls # <<>>
    /\ qc' = [qc EXCEPT !.phase = "keyed", !.key = resource_key(qc.op)]
    /\ UNCHANGED <<pipevars, codec, call>>

\* qml.transforms.decompose(gate_set=...) is entered with the operator
StartDecompose ==
    /\ qc.phase = "operator"
    /\ qc.op.controls # <<>>
    /\ ~qc.op.custom
    /\ \E gs \in GateSets :
        qc' = [qc EXCEPT !.phase = "decomposing", !.out = <<qc.op>>, !.gate_set = gs]
    /\ UNCHANGED <<pipevars, codec, call>>

\* one rule is applied to the first operator outside the gate set; without a
\* rule the operator is left in place
DecomposeStep ==
    /\ qc.phase = "decomposing"
    /\ LET k == FirstOutside(qc.out, qc.gate_set)
           rule == IF qc.out[k].controls = <<>> THEN <<>> ELSE graph_rule(qc.out[k])
           out == SubSeq(qc.out, 1, k - 1) \o rule \o SubSeq(qc.out, k + 1, Len(qc.out))
       IN IF rule = <<>>
          THEN qc' = [qc EXCEPT !.phase = "stuck"]
          ELSE qc' = [qc EXCEPT !.out = out,
                                !.steps = @ + 1,
                                !.phase = IF FirstOutside(out, qc.gate_set) = 0
                                          THEN "reduced" ELSE "decomposing"]
    /\ UNCHANGED <<pipevars, codec, call>>

NextQCond == QCond \/ Decomposition \/ ResourceRep \/ StartDecompose \/ DecomposeStep

SpecQCond == InitQCond /\ [][NextQCond]_vars

-----------------------------------------------------------------------------
(* Properties of the operator algebra *)

\* a qcond call has been made and nothing was done with its result yet
Constructed == qc.control_wires # <<>> /\ qc.phase \in {"operator", "rejected"}

\* C12: QubitConditioned(base, control_wires) raises ValueError and makes no
\* operator when control_wires shares a wire with base.wires; otherwise the
\* operator's wires are control_wires followed by base.wires; the control
\* wires and the base wires of every conditioned operator are disjoint.
C12_OverlapRejected ==
    /\ Constructed =>
        IF Range(qc.control_wires) \cap Range(op_wires(qc.base)) # {}
        THEN qc.phase = "rejected" /\ qc.error = "ValueError" /\ qc.op = NoOperator
        ELSE /\ qc.phase = "operator"
             /\ qc.error = "none"
             /\ op_wires(qc.op) = qc.control_wires \o op_wires(qc.base)
    /\ qc.op.controls # <<>> =>
        Range(control_wires_of(qc.op)) \cap Range(op_wires(base_of(qc.op))) = {}

\* TestQubitConditioned.test_overlapping_wires
C12_Witness ==
    /\ qc.phase = "rejected"
    /\ qc.base = Operator("RZ", <<3>>, <<w0>>)
    /\ qc.control_wires = <<w0>>

\* the operator was decomposed by the rules of the class itself
Decomposed == qc.phase \in {"decomposed", "undefined"} /\ ~qc.op.custom

\* the closed-form gate of a base type conditioned on one qubit
ClosedForm(name) ==
    CASE name = "Displacement" -> "ConditionalDisplacement"
      [] name = "Fourier" -> "ConditionalParity"
      [] name = "Squeezing" -> "ConditionalSqueezing"
      [] name = "Beamsplitter" -> "ConditionalBeamsplitter"
      [] name = "TwoModeSqueezing" -> "ConditionalTwoModeSqueezing"
      [] name = "TwoModeSum" -> "ConditionalTwoModeSum"
      [] name = "RZ" -> "IsingZZ"
      [] name = "IsingZZ" -> "MultiRZ"
      [] OTHER -> "none"

SpecialCased == {"Identity", "GlobalPhase", "MultiRZ", "Rotation"}

\* the conditioned operator wraps a plain base exactly once
SingleLevel == Len(qc.op.controls) = 1

\* C13: with one control wire c and no explicit rule, decomposition() gives
\* exactly one operator: the closed-form gate of the lookup table with the
\* base's parameters on [c] + base.wires, an Identity on [c] + base.wires for
\* Identity, MultiRZ(2*phi) on [c] for GlobalPhase(phi), MultiRZ with the same
\* angle on [c] + base.wires for MultiRZ, ConditionalRotation(2*theta) on
\* [c] + base.wires for Rotation(theta).
C13_SingleControlDecomposition ==
    (Decomposed /\ SingleLevel /\ Len(qc.control_wires) = 1
        /\ (ClosedForm(qc.op.name) # "none" \/ qc.op.name \in SpecialCased)) =>
        LET c == qc.control_wires
            on == c \o qc.op.wires
            name == qc.op.name
        IN /\ qc.phase = "decomposed"
           /\ Len(qc.out) = 1
           /\ ClosedForm(name) # "none" => qc.out[1] = Operator(ClosedForm(name), qc.op.data, on)
           /\ name = "Identity" => qc.out[1] = Operator("Identity", <<>>, on)
           /\ name = "GlobalPhase" => qc.out[1] = Operator("MultiRZ", <<2 * qc.op.data[1]>>, c)
           /\ name = "MultiRZ" => qc.out[1] = Operator("MultiRZ", qc.op.data, on)
           /\ name = "Rotation" =>
                qc.out[1] = Operator("ConditionalRotation", <<2 * qc.op.data[1]>>, on)

\* TestDecomposition.test_r_to_cr
C13_Witness ==
    /\ qc.phase = "decomposed"
    /\ qc.op = [Operator("Rotation", <<3>>, <<w0>>) EXCEPT !.controls = <<(<<w1>>)>>]
    /\ qc.out = <<Operator("ConditionalRotation", <<6>>, <<w1, w0>>)>>

\* the CNOT-ladder rule applies: several control wires and a base without an
\* identity of its own for any number of control wires
LadderApplies ==
    /\ Len(qc.op.controls) >= 1
    /\ Len(control_wires_of(qc.op)) >= 2
    /\ ~(SingleLevel /\ qc.op.name \in {"MultiRZ", "Identity", "GlobalPhase"})

\* C14: with control wires c1..ck, k >= 2, and a base U the CNOT-ladder rule
\* applies to, decomposition() gives CNOT(c1,c2) .. CNOT(c(k-1),ck), then U
\* conditioned on ck alone, then the same CNOTs in reverse order: 2(k-1)
\* CNOTs around one conditioned operator.
C14_CnotLadder ==
    (Decomposed /\ LadderApplies) =>
        LET cw == control_wires_of(qc.op)
            k == Len(cw)
            U == base_of(qc.op)
        IN /\ qc.phase = "decomposed"
           /\ Len(qc.out) = 2 * (k - 1) + 1
           /\ \A i \in 1..(k - 1) :
                /\ qc.out[i] = CNOT(cw[i], cw[i + 1])
                /\ qc.out[2 * k - i] = CNOT(cw[i], cw[i + 1])
           /\ qc.out[k] = [U EXCEPT !.controls = <<(<<cw[k]>>)>> \o @]

\* three control wires: the two CNOTs come back in the opposite order
C14_Witness ==
    /\ qc.phase = "decomposed"
    /\ ~qc.op.custom
    /\ qc.op.name = "Displacement"
    /\ qc.op.controls = <<(<<IntW(1), IntW(2), IntW(3)>>)>>
    /\ Len(qc.out) = 5

IsLadder(out, cw) ==
    /\ Len(out) = 2 * Len(cw) - 1
    /\ out[1].name = "CNOT"
    /\ out[Len(cw)].controls # <<>>

\* C15 as stated: an explicit rule first; otherwise, with more than one
\* control wire, the CNOT ladder for every base type; the lookup table and
\* the Identity, GlobalPhase, MultiRZ and Rotation identities only with a
\* single control wire.
C15_LadderForEveryBase ==
    qc.phase \in {"decomposed", "undefined"} =>
        /\ qc.op.custom => qc.out = compute_decomposition(qc.op.data, op_wires(qc.op))
        /\ (~qc.op.custom /\ Len(control_wires_of(qc.op)) > 1) =>
                IsLadder(qc.out, control_wires_of(qc.op))
        /\ (~qc.op.custom /\ qc.phase = "decomposed" /\ Len(qc.out) = 1) =>
                Len(control_wires_of(qc.op)) = 1

\* C15 amended: an explicit rule first; otherwise the lookup table, which
\* has entries for a single control wire only; otherwise the MultiRZ,
\* Identity and GlobalPhase identities, for any number of control wires;
\* otherwise the CNOT ladder when there is more than one control wire;
\* otherwise the Rotation identity; first match wins.
C15_RulePriority ==
    qc.phase \in {"decomposed", "undefined"} =>
        LET cw == control_wires_of(qc.op)
            identity == SingleLevel /\ qc.op.name \in {"MultiRZ", "Identity", "GlobalPhase"}
        IN
        /\ qc.op.custom => qc.out = compute_decomposition(qc.op.data, op_wires(qc.op))
        /\ (~qc.op.custom /\ Len(cw) > 1 /\ identity) =>
                /\ Len(qc.out) = 1
                /\ qc.out[1].name = (IF qc.op.name = "Identity" THEN "Identity" ELSE "MultiRZ")
                /\ qc.out[1].wires =
                     (IF qc.op.name = "GlobalPhase" THEN cw ELSE cw \o qc.op.wires)
        /\ (~qc.op.custom /\ Len(cw) > 1 /\ ~identity) => IsLadder(qc.out, cw)
        /\ (~qc.op.custom /\ Len(cw) = 1 /\ qc.phase = "decomposed") =>
                /\ Len(qc.out) = 1
                /\ qc.out[1].controls = <<>>
                /\ qc.out[1].name # "CNOT"
        /\ (~qc.op.custom /\ qc.phase = "decomposed" /\ Len(qc.out) = 1
                /\ qc.out[1].name \in {"ConditionalDisplacement", "ConditionalParity",
                       "ConditionalSqueezing", "ConditionalBeamsplitter",
                       "ConditionalTwoModeSqueezing", "ConditionalTwoModeSum", "IsingZZ",
                       "ConditionalRotation"}) => Len(cw) = 1

\* TestDecomposition.test_multirz: two control wires and no CNOT
C15_Witness ==
    /\ qc.phase = "decomposed"
    /\ ~qc.op.custom
    /\ qc.op.name = "MultiRZ"
    /\ qc.op.controls = <<(<<IntW(2), IntW(3)>>)>>
    /\ qc.out = <<Operator("MultiRZ", <<3>>, <<IntW(2), IntW(3), w0, w1>>)>>

\* no rule applies: one control wire over a base that has neither a table
\* entry nor an identity
NoRuleApplies ==
    /\ Decomposed
    /\ Len(control_wires_of(qc.op)) = 1
    /\ \/ ~SingleLevel
       \/ ClosedForm(qc.op.name) = "none" /\ qc.op.name \notin SpecialCased

\* C16: when no rule applies decomposition() raises
\* DecompositionUndefinedError; a decomposition that is returned is never
\* empty and never the operator itself.
C16_UndefinedRaises ==
    /\ NoRuleApplies => qc.phase = "undefined" /\ qc.error = "DecompositionUndefinedError"
    /\ qc.phase = "decomposed" => qc.out # <<>> /\ qc.out # <<qc.op>>

\* RX has no conditioned form
C16_Witness ==
    /\ qc.phase = "undefined"
    /\ qc.op.name = "RX"
    /\ qc.op.controls = <<(<<w1>>)>>
    /\ qc.error = "DecompositionUndefinedError"

\* the single-level operator with all control wires, outermost first
Flat(op) == [op EXCEPT !.controls = <<Flatten(@)>>]

\* C17: the resource key of a nested conditioned operator is the key of the
\* flat operator over the concatenated control wires, with num_control_wires
\* the total number of control wires and the base key that of U itself, and
\* qcond of a conditioned operator equals that flat operator.
C17_FlatteningCanonical ==
    (qc.phase = "keyed" /\ Len(qc.op.controls) >= 2) =>
        /\ qc.key = resource_key(Flat(qc.op))
        /\ qc.key.op_type = "QubitConditioned"
        /\ qc.key.num_control_wires = Len(Flatten(qc.op.controls))
        /\ qc.key.base_class = qc.op.name
        /\ qc.key.base_params = base_resource_params(qc.op)
        /\ qc.op = Flat(qc.op)

\* the operator handed to decompose has several control wires over a plain
\* base with a table entry, and the gate set is that entry and CNOT
LadderToNative ==
    /\ qc.phase \in {"decomposing", "reduced", "stuck"}
    /\ SingleLevel
    /\ Len(control_wires_of(qc.op)) >= 2
    /\ ClosedForm(qc.op.name) # "none"
    /\ qc.gate_set = {ClosedForm(qc.op.name), "CNOT"}

-----------------------------------------------------------------------------
(* End-to-end scenarios of the pipeline *)

\* get_compiler(optimize=False, max_qubits=mq) is running on a circuit that
\* is one JaynesCummings gate on a qubit wire and a qumode wire, the qubit
\* sampled in the computational basis
SingleJaynesCummings(mq) ==
    /\ ~dev.made
    /\ status \in {"running", "done", "error"}
    /\ opts = Options(FALSE, mq, FALSE, TRUE)
    /\ Len(tape) = 1
    /\ tape[1].name = "JaynesCummings"
    /\ meas = <<SampleZ(tape[1].wires[1])>>

OneRedSideband ==
    /\ status # "error"
    /\ status = "done" =>
        /\ Len(tape) = 1
        /\ tape[1].name = "JaynesCummings"
        /\ tape[1].wires[1].kind = "int"
        /\ tape[1].wires[2].kind = "qumode"

-----------------------------------------------------------------------------
(* The Qumode address codec on its own *)

TextAlphabet == {"m", "i", "0", "1", "9", "x", "\n"}

\* the texts a caller may hand to try_from_string
Texts == UNION {[1..n -> TextAlphabet] : n \in 0..MaxText}

InitCodec ==
    /\ PipelineIdle
    /\ qc = NoQC
    /\ codec = NoCodec
    /\ call = NoCall

\* str(Qumode(manifold, index))
Str ==
    /\ codec.call = "none"
    /\ \E manifold \in {0, 1}, index \in 0..MaxIndex :
        codec' = [call |-> "str", arg |-> Qumode(manifold, index),
                  text |-> Qumode__str__(Qumode(manifold, index)), result |-> {}]
    /\ UNCHANGED <<pipevars, qc, call>>

\* a wire label of a circuit that is a str
Label ==
    /\ codec.call = "none"
    /\ \E s \in Texts :
        codec' = [call |-> "label", arg |-> Qumode(0, 0), text |-> s, result |-> {}]
    /\ UNCHANGED <<pipevars, qc, call>>

\* Qumode.try_from_string(text)
TryFromString ==
    /\ codec.call \in {"str", "label"}
    /\ codec' = [codec EXCEPT !.call = IF @ = "str" THEN "roundtrip" ELSE "parsed",
                              !.result = try_from_string(codec.text)]
    /\ UNCHANGED <<pipevars, qc, call>>

NextCodec == Str \/ Label \/ TryFromString

SpecCodec == InitCodec /\ [][NextCodec]_vars

\* C20: for manifold 0 or 1 and any index >= 0, try_from_string of the str
\* of Qumode(manifold, index) is that Qumode again, and the str is
\* "m{manifold}i{index}": m, the manifold digit, i, the index in decimal.
C20_AddressRoundTrip ==
    /\ codec.call \in {"str", "roundtrip"} =>
        /\ Len(codec.text) >= 4
        /\ codec.text[1] = "m"
        /\ codec.text[2] = DigitChar(codec.arg.m)
        /\ codec.text[3] = "i"
        /\ \A k \in 4..Len(codec.text) : codec.text[k] \in Digit
        /\ IntOf(SubSeq(codec.text, 4, Len(codec.text))) = codec.arg.i
        /\ Len(codec.text) = (IF codec.arg.i < 10 THEN 4 ELSE 5)
    /\ codec.call = "roundtrip" =>
        /\ codec.result = {codec.arg}
        /\ \A q \in codec.result : Qumode__str__(q) = codec.text

\* an index of two digits comes back whole
C20_Witness ==
    /\ codec.call = "roundtrip"
    /\ codec.arg = Qumode(1, 10)
    /\ codec.text = <<"m", "1", "i", "1", "0">>
    /\ codec.result = {Qumode(1, 10)}

\* C21: try_from_string returns None for every text that is not exactly m,
\* one of 0 and 1, i, and one or more decimal digits, with nothing before or
\* after (no trailing newline either); it returns a Qumode only for texts of
\* exactly that form.
C21_OnlyExactAddresses ==
    codec.call \in {"parsed", "roundtrip"} =>
        (codec.result # {} <=>
            /\ Len(codec.text) >= 4
            /\ codec.text[1] = "m"
            /\ codec.text[2] \in {"0", "1"}
            /\ codec.text[3] = "i"
            /\ \A k \in 4..Len(codec.text) : codec.text[k] \in Digit)

-----------------------------------------------------------------------------
(* The device rules called directly *)

\* wire labels an operator may be given: qubits, hardware qumodes, and a str
RuleWires ==
    {IntW(k) : k \in 0..MaxWire}
        \cup {Qumode(0, 0), Qumode(0, 1), Qumode(1, 1), Qumode(1, 3), hw11}

\* operator classes with the number of wires each is built on
RuleGates ==
    {<<"ConditionalXSqueezing", 2>>, <<"NativeBeamsplitter", 3>>, <<"JaynesCummings", 2>>,
     <<"SidebandProbe", 2>>, <<"IsingXX", 2>>, <<"RX", 1>>, <<"CNOT", 2>>,
     <<"Hadamard", 1>>, <<"Displacement", 1>>, <<"Beamsplitter", 2>>}

RuleOps ==
    {Op(g[1], ws) : g \in RuleGates,
                    ws \in {x \in [1..3 -> RuleWires] : NoDuplicates(x)}
                        \cup {x \in [1..2 -> RuleWires] : NoDuplicates(x)}
                        \cup [1..1 -> RuleWires]}

InitRules ==
    /\ PipelineIdle
    /\ qc = NoQC
    /\ codec = NoCodec
    /\ call = NoCall

\* is_gate_supported(op)
IsGateSupported ==
    /\ call.fn = "none"
    /\ \E op \in RuleOps :
        /\ \E g \in RuleGates : g[1] = op.name /\ g[2] = Len(op.wires)
        /\ call' = [fn |-> "is_gate_supported", arg |-> op,
                    result |-> is_gate_supported(op)]
    /\ UNCHANGED <<pipevars, qc, codec>>

NextRules == IsGateSupported

SpecRules == InitRules /\ [][NextRules]_vars

\* C22: is_gate_supported(op) holds exactly when: for ConditionalXSqueezing
\* the second wire is Qumode(1, 1), whatever the qubit; for
\* NativeBeamsplitter the wires contain both Qumode(0, 1) and Qumode(1, 1),
\* in either order, and the first wire is qubit 0, 1 or 3; for every other
\* operator the name is one of QUBIT_GATES or BOSON_GATES.
C22_GateSupportRule ==
    call.fn = "is_gate_supported" =>
        LET op == call.arg IN
        call.result <=>
            IF op.name = "ConditionalXSqueezing" THEN op.wires[2] = Qumode(1, 1)
            ELSE IF op.name = "NativeBeamsplitter"
            THEN /\ \E j, k \in DOMAIN op.wires :
                        op.wires[j] = Qumode(0, 1) /\ op.wires[k] = Qumode(1, 1)
                 /\ \E q \in {0, 1, 3} : op.wires[1] = IntW(q)
            ELSE op.name \in QUBIT_GATES \/ op.name \in BOSON_GATES

\* a beamsplitter between the tilt modes is refused on qubit 2
C22_Witness ==
    /\ call.fn = "is_gate_supported"
    /\ call.arg = Op("NativeBeamsplitter", <<IntW(2), Qumode(1, 1), Qumode(0, 1)>>)
    /\ call.result = FALSE

-----------------------------------------------------------------------------
(* The measurement policy of the final validation *)

\* validate_measurements was the last transform applied
MeasurementsValidated ==
    trace # <<>> /\ trace[Len(trace)] = "validate_measurements"

\* the observable is a scalar multiple of one tensor product of Paulis
SinglePauliWord(m) ==
    /\ Len(m.words) = 1
    /\ \A b \in DOMAIN m.words[1] : m.words[1][b].name \in {"PauliX", "PauliY", "PauliZ"}

\* C23: final validation rejects with DeviceError every circuit that holds
\* an analytic measurement, whatever its observable, and accepts a sampled
\* measurement exactly when it has no observable or its observable is a
\* single Pauli word; no run ends normally with an analytic measurement.
C23_MeasurementPolicy ==
    /\ MeasurementsValidated =>
        /\ (\E k \in DOMAIN prev.meas : ~prev.meas[k].sampled) =>
                status = "error" /\ error.type = "DeviceError"
        /\ (\A k \in DOMAIN prev.meas : prev.meas[k].sampled) =>
                (error = NoError <=>
                    \A k \in DOMAIN prev.meas :
                        ~prev.meas[k].hasobs \/ SinglePauliWord(prev.meas[k]))
        /\ error # NoError => error.type = "DeviceError"
    /\ status = "done" =>
        \A k \in DOMAIN meas :
            meas[k].sampled /\ (~meas[k].hasobs \/ SinglePauliWord(meas[k]))

\* an expectation value of PauliZ without shots is refused
C23_Witness ==
    /\ MeasurementsValidated
    /\ prev.meas # <<>>
    /\ ~prev.meas[1].sampled
    /\ SinglePauliWord(prev.meas[1])
    /\ error.type = "DeviceError"

-----------------------------------------------------------------------------
(* The work wires of dynamic_gate_decompose *)

DynamicGateDecomposed ==
    trace # <<>> /\ trace[Len(trace)] = "dynamic_gate_decompose"

\* C24: with max_qubits given, the number of work wires offered to the
\* decomposition is max_qubits minus the qubits the circuit uses, it is
\* never negative, exactly that many names virtual-qubit-0, virtual-qubit-1,
\* ... exist for the allocated wires, and the circuit uses at most
\* max_qubits qubits after the decomposition.
C24_WorkWireBudget ==
    (DynamicGateDecomposed /\ opts.max_qubits # None
        /\ error.type # "StaticAnalysisError") =>
        LET offered == remaining_work_wires_of(prev.tape, prev.meas, opts.max_qubits)
            used == Cardinality(UsedAsQubit(prev.tape, prev.meas))
        IN /\ offered = opts.max_qubits - used
           /\ offered >= 0
           /\ Cardinality(zeroed(offered)) = offered
           /\ error = NoError =>
                /\ Cardinality(UsedAsQubit(tape, meas)) <= opts.max_qubits
                /\ \A w \in TapeWires(tape, meas) \ TapeWires(prev.tape, prev.meas) :
                        w \in zeroed(offered)

-----------------------------------------------------------------------------
(* gaussian_fusion, one loop iteration at a time *)

\* CVOperation classes with supports_heisenberg
GaussianGates == {"Displacement", "Squeezing", "Rotation", "Beamsplitter", "Fourier"}

\* _is_gaussian
_is_gaussian(op) == op.name \in GaussianGates

\* Wires a | Wires b: the wires of a, then those of b not in a
WiresUnion(a, b) == a \o SelectSeq(b, LAMBDA w : w \notin Range(a))

RECURSIVE all_wires(_)
\* Wires.all_wires([op.wires for op in ops])
all_wires(ops) ==
    IF ops = <<>> THEN <<>>
    ELSE WiresUnion(all_wires(SubSeq(ops, 1, Len(ops) - 1)), ops[Len(ops)].wires)

\* _fuse_gaussian: one Gaussian gate standing for ops, in their order
_fuse_gaussian(ops) == [name |-> "Gaussian", wires |-> all_wires(ops), members |-> ops]

\* the locals of gaussian_fusion
FusionState(new_ops, to_fuse, curr_wires) ==
    [new_ops |-> new_ops, to_fuse |-> to_fuse, curr_wires |-> curr_wires]

\* variant of the loop body: a non-Gaussian operation never ends the block
fusion_step_never_flush(st, op) ==
    IF _is_gaussian(op)
    THEN FusionState(st.new_ops, Append(st.to_fuse, op), WiresUnion(st.curr_wires, op.wires))
    ELSE FusionState(Append(st.new_ops, op), st.to_fuse, st.curr_wires)

\* the body of "for op in tape.operations"
fusion_step(st, op) ==
    IF _is_gaussian(op)
    THEN FusionState(st.new_ops, Append(st.to_fuse, op), WiresUnion(st.curr_wires, op.wires))
    ELSE IF Range(op.wires) \cap Range(st.curr_wires) # {} /\ st.to_fuse # <<>>
    THEN FusionState(st.new_ops \o <<_fuse_gaussian(st.to_fuse), op>>, <<>>, <<>>)
    ELSE FusionState(Append(st.new_ops, op), st.to_fuse, st.curr_wires)

\* after the loop: "if to_fuse: new_ops.append(_fuse_gaussian(to_fuse))"
fusion_end(st) ==
    IF st.to_fuse # <<>> THEN Append(st.new_ops, _fuse_gaussian(st.to_fuse)) ELSE st.new_ops

\* Gaussian gates on wires 0 and 1, Kerr on a wire of the block and beside it,
\* and a hybrid gate and a second Gaussian gate that reach wire 2
FusionOps ==
    {Op("Displacement", <<IntW(0)>>), Op("Displacement", <<IntW(1)>>),
     Op("Beamsplitter", <<IntW(1), IntW(2)>>),
     Op("Kerr", <<IntW(0)>>), Op("Kerr", <<IntW(2)>>),
     Op("ConditionalDisplacement", <<IntW(3), IntW(1)>>)}

\* TestGaussianFusion.test_with_nongaussian and test_with_nongaussian_commuting
FusionTests ==
    {<<Op("Displacement", <<IntW(0)>>), Op("Displacement", <<IntW(1)>>), Op("Kerr", <<IntW(k)>>),
       Op("Displacement", <<IntW(0)>>), Op("Displacement", <<IntW(1)>>)>> : k \in {0, 2}}

FusionCircuits == SeqsUpTo(FusionOps, MaxFusionOps) \cup FusionTests

InitFusion ==
    /\ PipelineIdle
    /\ qc = NoQC
    /\ codec = NoCodec
    /\ call = NoCall

\* gaussian_fusion(tape) is entered
FusionEnter ==
    /\ call.fn = "none"
    /\ \E ops \in FusionCircuits, ms \in {<<>>, <<SampleZ(IntW(3))>>} :
        call' = [fn |-> "gaussian_fusion", arg |-> ops, meas |-> ms, i |-> 0,
                 st |-> FusionState(<<>>, <<>>, <<>>), returned |-> FALSE,
                 result |-> [ops |-> <<>>, meas |-> <<>>]]
    /\ UNCHANGED <<pipevars, qc, codec>>

\* one iteration of the loop
FusionLoop ==
    /\ call.fn = "gaussian_fusion"
    /\ ~call.returned
    /\ call.i < Len(call.arg)
    /\ call' = [call EXCEPT !.i = @ + 1, !.st = fusion_step(@, call.arg[call.i + 1])]
    /\ UNCHANGED <<pipevars, qc, codec>>

\* the loop is over: the pending block is fused and the new tape returned
FusionReturn ==
    /\ call.fn = "gaussian_fusion"
    /\ ~call.returned
    /\ call.i = Len(call.arg)
    /\ call' = [call EXCEPT !.returned = TRUE,
                            !.result = [ops |-> fusion_end(call.st), meas |-> call.meas]]
    /\ UNCHANGED <<pipevars, qc, codec>>

NextFusion == FusionEnter \/ FusionLoop \/ FusionReturn

SpecFusion == InitFusion /\ [][NextFusion]_vars

\* the operations a list stands for, a fused gate standing for its members
Members(ops) ==
    Flatten([k \in DOMAIN ops |-> IF ops[k].name = "Gaussian" THEN ops[k].members
                                  ELSE <<ops[k]>>])

OnWire(ops, w) == SelectSeq(ops, LAMBDA o : w \in Range(o.wires))

NonGaussian(ops) == SelectSeq(ops, LAMBDA o : o.name \notin GaussianGates \cup {"Gaussian"})

\* the operation the loop is looking at
Current == call.arg[call.i + 1]

Looping == call.fn = "gaussian_fusion" /\ ~call.returned /\ call.i < Len(call.arg)

SharesPending ==
    /\ call.st.to_fuse # <<>>
    /\ \E k \in DOMAIN call.st.to_fuse :
            Range(call.st.to_fuse[k].wires) \cap Range(Current.wires) # {}

Fused(ops) ==
    /\ ops # <<>>
    /\ \A k \in DOMAIN ops : ops[k].name \in GaussianGates

FusionReturned == call.fn = "gaussian_fusion" /\ call.returned

\* C25: gaussian_fusion keeps every non-Gaussian operation once and in order;
\* a non-Gaussian operation sharing a wire with the pending block makes the
\* whole block one fused gate placed just before it, one sharing no wire is
\* emitted at once and the block stays pending, and what is pending at the
\* end becomes one last fused gate; so on every wire the operations keep
\* their order (a fused gate standing for its members), and the measurements
\* are unchanged.
C25_FusionOrder ==
    /\ [](FusionReturned =>
            /\ NonGaussian(call.result.ops) = NonGaussian(call.arg)
            /\ \A w \in Range(all_wires(call.arg)) :
                    OnWire(Members(call.result.ops), w) = OnWire(call.arg, w)
            /\ \A k \in DOMAIN call.result.ops :
                    /\ call.result.ops[k].name \notin GaussianGates
                    /\ call.result.ops[k].name = "Gaussian" =>
                            /\ Fused(call.result.ops[k].members)
                            /\ (k < Len(call.result.ops) =>
                                    call.result.ops[k + 1].name # "Gaussian")
            /\ call.result.meas = call.meas)
    /\ [][(Looping /\ Current.name \notin GaussianGates) =>
            IF SharesPending
            THEN /\ Len(call'.st.new_ops) = Len(call.st.new_ops) + 2
                 /\ SubSeq(call'.st.new_ops, 1, Len(call.st.new_ops)) = call.st.new_ops
                 /\ call'.st.new_ops[Len(call.st.new_ops) + 1].name = "Gaussian"
                 /\ call'.st.new_ops[Len(call.st.new_ops) + 1].members = call.st.to_fuse
                 /\ call'.st.new_ops[Len(call.st.new_ops) + 2] = Current
                 /\ call'.st.to_fuse = <<>>
            ELSE /\ call'.st.new_ops = Append(call.st.new_ops, Current)
                 /\ call'.st.to_fuse = call.st.to_fuse]_vars
    /\ [][(call.fn = "gaussian_fusion" /\ ~call.returned /\ call.i = Len(call.arg)
            /\ call.st.to_fuse # <<>>) =>
            /\ Len(call'.result.ops) = Len(call.st.new_ops) + 1
            /\ call'.result.ops[Len(call'.result.ops)].name = "Gaussian"
            /\ call'.result.ops[Len(call'.result.ops)].members = call.st.to_fuse]_vars

\* test_with_nongaussian: a block, Kerr on one of its wires, a second block
C25_Witness ==
    /\ FusionReturned
    /\ Len(call.arg) = 5
    /\ Len(call.result.ops) = 3
    /\ call.result.ops[1].name = "Gaussian"
    /\ call.result.ops[2] = Op("Kerr", <<IntW(0)>>)
    /\ call.result.ops[3].name = "Gaussian"
    /\ Len(call.result.ops[3].members) = 2

-----------------------------------------------------------------------------
(* The measurement groups of to_openqasm *)

\* Wires.all_wires([m.wires for m in group]), group holding positions in mps
group_wires(group, mps) == UNION {Range(mps[group[j]]) : j \in DOMAIN group}

\* the inner loop "for group in measurement_groups" for the measurement at
\* position k, followed by "if not found: measurement_groups.append([mp])"
place_measurement(groups, k, mps) ==
    LET overlapping(g) == Range(mps[k]) \cap group_wires(groups[g], mps)
        found == \E g \in DOMAIN groups : overlapping(g) = {}
        appended == [g \in DOMAIN groups |->
                        IF overlapping(g) = {} THEN Append(groups[g], k) ELSE groups[g]]
    IN IF found THEN appended ELSE Append(appended, <<k>>)

RECURSIVE measurement_groups(_, _)
\* the outer loop "for mp in tape.measurements" over the first n measurements
measurement_groups(n, mps) ==
    IF n = 0 THEN <<>>
    ELSE place_measurement(measurement_groups(n - 1, mps), n, mps)

\* wires of one measurement: a qubit, a qumode, or both
MeasuredWires == {<<IntW(0)>>, <<IntW(1)>>, <<IntW(2)>>, <<IntW(0), IntW(1)>>, <<IntW(1), IntW(2)>>}

InitQasm ==
    /\ PipelineIdle
    /\ qc = NoQC
    /\ codec = NoCodec
    /\ call = NoCall

\* to_openqasm(tape): the measurement groups it forms
ToOpenqasm ==
    /\ call.fn = "none"
    /\ \E mps \in SeqsUpTo(MeasuredWires, MaxMeasurements) :
        call' = [fn |-> "to_openqasm", arg |-> mps,
                 result |-> measurement_groups(Len(mps), mps)]
    /\ UNCHANGED <<pipevars, qc, codec>>

NextQasm == ToOpenqasm

SpecQasm == InitQasm /\ [][NextQasm]_vars

\* C26: to_openqasm splits the measurements into groups such that no two
\* measurements of one group share a wire and every measurement is in
\* exactly one group, for every number and order of measurements.
C26_MeasurementPartition ==
    call.fn = "to_openqasm" =>
        LET groups == call.result
            mps == call.arg
            places(k) == {<<g, j>> \in (DOMAIN groups) \X (1..Len(mps)) :
                            j \in DOMAIN groups[g] /\ groups[g][j] = k}
        IN /\ \A g \in DOMAIN groups : \A a, b \in DOMAIN groups[g] :
                a # b => Range(mps[groups[g][a]]) \cap Range(mps[groups[g][b]]) = {}
           /\ \A k \in DOMAIN mps : Cardinality(places(k)) = 1

-----------------------------------------------------------------------------
(* has_decomposition against decomposition *)

\* decomposition() has been called on the conditioned operator
DecompositionCalled == qc.phase \in {"decomposed", "undefined"}

\* C27: has_decomposition and decomposition() agree on every QubitConditioned
\* node: when has_decomposition is True decomposition() returns operators and
\* does not raise DecompositionUndefinedError, and when it is False
\* decomposition() raises it.
C27_HasDecompositionAgrees ==
    DecompositionCalled =>
        /\ has_decomposition(qc.op) => qc.error = "none"
        /\ ~has_decomposition(qc.op) => qc.error = "DecompositionUndefinedError"

-----------------------------------------------------------------------------
(* The control wires a resource key stands for *)

\* C28: qubit_conditioned_resource_rep never loses control wires: with n the
\* total number of control wires, it returns the key of a closed-form gate
\* only when n = 1, and for n >= 2 a QubitConditioned key whose
\* num_control_wires is n, or n plus the qubit of a conditional gate that
\* was rewritten to its base (a call that raises returns no key).
C28_KeyKeepsControls ==
    (qc.phase = "keyed" /\ qc.key # KeyTypeError) =>
        LET n == Len(Flatten(qc.op.controls)) IN
        /\ qc.key.op_type # "QubitConditioned" => n = 1
        /\ n >= 2 =>
            /\ qc.key.op_type = "QubitConditioned"
            /\ qc.key.num_control_wires =
                    (IF qc.key.base_class = qc.op.name THEN n ELSE n + 1)

-----------------------------------------------------------------------------
(* The budget checks against the solver *)

\* native gates that is_gate_supported accepts by name alone
UnconstrainedGates == NATIVE_GATES \ {"ConditionalXSqueezing", "NativeBeamsplitter"}

\* C29: when the circuit's qubits are at most max_qubits, its qumodes at most
\* the qumode limit, and every operation is a native gate without a topology
\* rule of its own, the CSP has a solution and layout_wires does not raise
\* the DeviceError "no layout was found", whichever wires carry hardware
\* labels already.
C29_BudgetChecksExact ==
    (/\ LayoutRan
     /\ WithinBudget
     /\ \A k \in DOMAIN prev.tape : prev.tape[k].name \in UnconstrainedGates) =>
        /\ error = NoError
        /\ solver_calls > 0

\* parse_hardware_wires was the last transform to run
HardwareWiresParsed ==
    trace # <<>> /\ trace[Len(trace)] = "parse_hardware_wires"

\* C30: parse_hardware_wires is injective on the wires of a circuit: a string
\* wire that spells a hardware address becomes the Qumode it spells, every
\* other wire stays as it is, and no two distinct wires of the circuit are
\* mapped to the same wire
C30_ParseInjective ==
    HardwareWiresParsed =>
        LET wm == hardware_wire_map(prev.tape, prev.meas) IN
        /\ \A w \in DOMAIN wm :
              IF w.kind = "str" /\ try_from_string(w.s) # {}
              THEN wm[w] \in try_from_string(w.s)
              ELSE wm[w] = w
        /\ \A v, w \in DOMAIN wm : wm[v] = wm[w] => v = w

====
